---- MODULE Spec2Model ----
(***************************************************************************)
(* Container lifecycle, monitoring and recovery engine of flow-manager     *)
(* (src/flow-manager/container_manager.py, src/flow-manager/models.py).    *)
(*                                                                         *)
(* The module holds several specifications over one set of variables:      *)
(*   SpecModels     the HealthStatusHistory object driven by its methods   *)
(*   SpecAddResult  long runs of HealthStatusHistory.add_result            *)
(*   SpecHealth     the health-check units, their recovery actions and the *)
(*                  calls that configure and delete containers             *)
(*   SpecMonitor    the monitoring loop with start_monitoring and          *)
(*                  stop_monitoring                                        *)
(*   SpecCheck      _check_container_status awaited for one container      *)
(*   SpecResource   long runs of _check_resource_usage                     *)
(* Each specification leaves the variables of the others unchanged.        *)
(***************************************************************************)
EXTENDS Integers, Sequences, FiniteSets, TLC

(***************************************************************************)
(* Bounds of the model                                                     *)
(***************************************************************************)
MaxTime == 4
MaxAttemptsCfg == 2
MaxRecords == 2
MaxResults == 2
MaxAdds == 102
MaxClock == 10
TickStep == 5
MaxIds == 2
MaxTasks == 2
MaxSetConfig == 1
MaxProbes == 3
MaxApiErrors == 1
MaxChecks == 11
MaxSameTime == 1
MaxStatsChanges == 1
MaxLoops == 2
MaxMonCalls == 3
MaxRaceCalls == 4
MaxStatusChecks == 4
MaxRuntimeChanges == 1
MaxListErrors == 1
MaxMonClock == 10
MaxRuntimeRemoves == 1
MaxUpdateIds == 3
MaxUpdates == 2
MaxTickChanges == 2
MaxManagedUpdates == 1
MaxUnitSets == 2
MaxAlertStats == 1
MaxAlertChecks == 3
MaxQueued == 24
MaxSetups == 2
MaxCleanups == 2
MaxSends == 1
MaxReceives == 1
MaxPeers == 2
MaxSocketFaults == 1

(***************************************************************************)
(* Program constants                                                       *)
(***************************************************************************)
DefaultMaxHistory == 100
ResourceHistoryLimit == 10
MiB == 1048576

NoTime == -1

ContainerHealth == {"healthy", "unhealthy", "starting", "none"}
RecoveryActions == {"restart", "recreate", "none"}
Cooldowns == {0, 2, 4}

VARIABLES
    now,        \* datetime.now(), in seconds
    m_cfg,      \* HealthCheckConfig under test
    m_hist,     \* HealthStatusHistory under test
    m_ret,      \* the last should_recover call: [called, value]
    m_added,    \* every result handed to add_result, in call order
    m_pat       \* SpecAddResult: the outcome pattern of the probes

m_vars == << m_cfg, m_hist, m_ret, m_added, m_pat >>

VARIABLES
    docker,                  \* the runtime: container id -> status
    next_id,                 \* id the runtime gives to the next container
    socket_files,            \* ids whose <name>.sock exists in socket_dir
    _health_check_configs,   \* container id -> HealthCheckConfig or NoConfig
    _health_status_history,  \* container id -> HealthStatusHistory or NoHistory
    _health_check_tasks,     \* container id -> task or NoTask
    tasks,                   \* every asyncio task running _health_check_loop
    h_log,                   \* container id -> recovery actions executed
                             \* against the history stored under that id
    h_probes,                \* probes completed so far
    h_stale,                 \* a probe completed for a deleted container
    h_last,                  \* the manager call that ran last
    h_budget                 \* calls and faults left to the environment

h_vars == << docker, next_id, socket_files, _health_check_configs,
             _health_status_history, _health_check_tasks, tasks,
             h_log, h_probes, h_stale, h_last, h_budget >>

VARIABLES
    m_docker,                  \* the runtime: container id -> what it reports
    _container_states,         \* container id -> last state seen, or "none"
    _resource_usage_history,   \* container id -> list of snapshots
    _resource_thresholds,      \* resource type -> threshold
    _resource_monitoring_enabled,
    _status_change_callbacks,  \* the registered callbacks, by kind
    _health_check_callbacks,
    _crash_callbacks,
    _resource_alert_callbacks,
    _monitoring_active,
    _monitoring_task,          \* the loop task start_monitoring created
    loops,                     \* every asyncio task running _monitoring_loop
    stops,                     \* tasks awaited by suspended stop_monitoring calls
    mon_last,                  \* the operation that ran last
    mon_added,                 \* container id -> every snapshot stored so far
    mon_budget                 \* calls and runtime changes left

mon_vars == << m_docker, _container_states, _resource_usage_history,
               _resource_thresholds, _resource_monitoring_enabled,
               _status_change_callbacks, _health_check_callbacks,
               _crash_callbacks, _resource_alert_callbacks,
               _monitoring_active, _monitoring_task, loops, stops,
               mon_last, mon_added, mon_budget >>

VARIABLES
    _connections,        \* container id -> the socket stored for it
    _connection_status,  \* container id -> True, False or no entry
    sock_dir,            \* ids whose <id>.sock exists in the handler's dir
    peers,               \* container id -> the peer's pending connection
    delivered,           \* container id -> the frame the peer read last
    s_msgs,              \* the messages callers hand to send_message
    s_last,              \* the handler call that ran last
    s_budget             \* calls and faults left to the environment

s_vars == << _connections, _connection_status, sock_dir, peers, delivered,
             s_msgs, s_last, s_budget >>

VARIABLES
    u_docker,   \* update_container's runtime: container id -> status
    u_next_id,  \* id the runtime gives to the next container
    fs,         \* the code directories and the backup on disk
    u_last,     \* the update_container call that ran last
    u_budget    \* the calls left to the callers

u_vars == << u_docker, u_next_id, fs, u_last, u_budget >>

vars == << now, m_vars, h_vars, mon_vars, s_vars, u_vars >>

(***************************************************************************)
(* models.py: HealthCheckConfig, HealthCheckResult, HealthStatusHistory    *)
(***************************************************************************)
HealthCheckConfig(en, auto, action, maxAtt, cooldown) ==
    [enabled |-> en, auto_recovery |-> auto, recovery_action |-> action,
     max_recovery_attempts |-> maxAtt, recovery_cooldown |-> cooldown]

HealthCheckResult(ts, ok) ==
    [timestamp |-> ts, success |-> ok,
     health |-> IF ok THEN "healthy" ELSE "unhealthy"]

HealthStatusHistory ==
    [history |-> << >>, current_health |-> "none", consecutive_failures |-> 0,
     last_healthy |-> NoTime, last_unhealthy |-> NoTime,
     recovery_attempts |-> 0, last_recovery_attempt |-> NoTime]

\* self.history[-max_history:]
LastN(s, n) ==
    IF Len(s) > n THEN SubSeq(s, Len(s) - n + 1, Len(s)) ELSE s

\* keeps the oldest max_history results instead of the newest
add_result_keep_oldest(h, result, max_history) ==
    LET appended == Append(h.history, result)
        kept == IF Len(appended) > max_history
                THEN SubSeq(appended, 1, max_history)
                ELSE appended
    IN [h EXCEPT
          !.history = kept,
          !.current_health = result.health,
          !.consecutive_failures = IF result.success THEN 0 ELSE @ + 1,
          !.last_healthy = IF result.success THEN result.timestamp ELSE @,
          !.last_unhealthy = IF result.success THEN @ ELSE result.timestamp]

\* a healthy result leaves the failure count as it is
add_result_never_clearing(h, result, max_history) ==
    LET appended == Append(h.history, result)
        kept == IF Len(appended) > max_history
                THEN LastN(appended, max_history)
                ELSE appended
    IN [h EXCEPT
          !.history = kept,
          !.current_health = result.health,
          !.consecutive_failures = IF result.success THEN @ ELSE @ + 1,
          !.last_healthy = IF result.success THEN result.timestamp ELSE @,
          !.last_unhealthy = IF result.success THEN @ ELSE result.timestamp]

\* a healthy result clears the count of recovery attempts
add_result_resetting(h, result, max_history) ==
    LET appended == Append(h.history, result)
        kept == IF Len(appended) > max_history
                THEN LastN(appended, max_history)
                ELSE appended
    IN [h EXCEPT
          !.history = kept,
          !.current_health = result.health,
          !.consecutive_failures = IF result.success THEN 0 ELSE @ + 1,
          !.recovery_attempts = IF result.success THEN 0 ELSE @,
          !.last_healthy = IF result.success THEN result.timestamp ELSE @,
          !.last_unhealthy = IF result.success THEN @ ELSE result.timestamp]

add_result(h, result, max_history) ==
    LET appended == Append(h.history, result)
        kept == IF Len(appended) > max_history
                THEN LastN(appended, max_history)
                ELSE appended
    IN [h EXCEPT
          !.history = kept,
          !.current_health = result.health,
          !.consecutive_failures = IF result.success THEN 0 ELSE @ + 1,
          !.last_healthy = IF result.success THEN result.timestamp ELSE @,
          !.last_unhealthy = IF result.success THEN @ ELSE result.timestamp]

\* waits until config.retries probes in a row have failed
should_recover_after_retries(h, config, t) ==
    IF ~config.auto_recovery \/ config.recovery_action = "none"
    THEN FALSE
    ELSE IF h.recovery_attempts >= config.max_recovery_attempts
    THEN FALSE
    ELSE IF h.last_recovery_attempt # NoTime
            /\ t - h.last_recovery_attempt < config.recovery_cooldown
    THEN FALSE
    ELSE /\ h.current_health = "unhealthy"
         /\ h.consecutive_failures >= config.retries

\* cooldown compared with <= : still refuses when elapsed = cooldown
should_recover_strict(h, config, t) ==
    IF ~config.auto_recovery \/ config.recovery_action = "none"
    THEN FALSE
    ELSE IF h.recovery_attempts >= config.max_recovery_attempts
    THEN FALSE
    ELSE IF h.last_recovery_attempt # NoTime
            /\ t - h.last_recovery_attempt <= config.recovery_cooldown
    THEN FALSE
    ELSE h.current_health = "unhealthy"

should_recover(h, config, t) ==
    IF ~config.auto_recovery \/ config.recovery_action = "none"
    THEN FALSE
    ELSE IF h.recovery_attempts >= config.max_recovery_attempts
    THEN FALSE
    ELSE IF h.last_recovery_attempt # NoTime
            /\ t - h.last_recovery_attempt < config.recovery_cooldown
    THEN FALSE
    ELSE h.current_health = "unhealthy"

\* counts the attempt and leaves the timestamp alone
record_recovery_attempt_no_stamp(h, t) ==
    [h EXCEPT !.recovery_attempts = @ + 1]

record_recovery_attempt(h, t) ==
    [h EXCEPT !.recovery_attempts = @ + 1, !.last_recovery_attempt = t]

(***************************************************************************)
(* container_manager.py: the health-check engine and recovery controller   *)
(***************************************************************************)
Ids == 1..MaxIds
TaskIds == 1..MaxTasks

NoConfig == [enabled |-> FALSE, absent |-> TRUE]
NoHistory == [absent |-> TRUE]
NoTask == 0

\* finds a container that was removed
NotFound_never_created(d, cid) == d[cid] = "absent"

\* docker_client.containers.get(id) raises NotFound
NotFound(d, cid) == d[cid] \in {"absent", "removed", "gone"}

\* check types whose probe awaits I/O (http, tcp, socket) and those that
\* run to completion without suspending (command, docker health block)
AsyncCheckTypes == {"http"}
SyncCheckTypes == {"command"}

EngineConfig(en, ctype, action, maxAtt, cooldown) ==
    [enabled |-> en, check_type |-> ctype, auto_recovery |-> TRUE,
     recovery_action |-> action, max_recovery_attempts |-> maxAtt,
     recovery_cooldown |-> cooldown, interval |-> 5, timeout |-> 10,
     retries |-> 3, start_period |-> 0]

\* the configs callers hand to set_health_check_config
EngineConfigs ==
    { EngineConfig(TRUE, "http", "restart", 2, 7),
      EngineConfig(TRUE, "command", "restart", 1, 0),
      EngineConfig(TRUE, "command", "recreate", 2, 10),
      EngineConfig(FALSE, "http", "none", 1, 0) }

\* models.py: the field validators HealthCheckConfig(...) runs; a failing
\* one makes the constructor raise
validate_interval_any(v) == TRUE

validate_interval(v) == v >= 5

validate_timeout(v) == v >= 1

validate_retries(v) == v >= 1

validate_recovery_action(v) == v \in {"restart", "recreate", "none"}

\* HealthCheckConfig(**kwargs) returns an object
Constructs(kwargs) ==
    /\ validate_interval(kwargs.interval)
    /\ validate_timeout(kwargs.timeout)
    /\ validate_retries(kwargs.retries)
    /\ validate_recovery_action(kwargs.recovery_action)

\* the arguments callers build a config from: those above and some that
\* break one rule each
ConfigArgs ==
    LET base == EngineConfig(TRUE, "http", "restart", 2, 7)
    IN EngineConfigs
          \cup { [base EXCEPT !.interval = 4], [base EXCEPT !.interval = 0],
                 [base EXCEPT !.timeout = 0], [base EXCEPT !.retries = 0],
                 [base EXCEPT !.recovery_action = "reboot"] }

\* h_last when the last step was not a delete_container call
OtherOp == [op |-> "other"]

\* cb: the callback the unit is suspended in; events: what the unit did in
\* its current iteration, in order
FreshTask == [pc |-> "unborn", cid |-> 0, config |-> NoConfig,
              must_cancel |-> FALSE, wake |-> 0, probe_start |-> 0,
              cb |-> 0, events |-> << >>]

Finished(t) == [FreshTask EXCEPT !.pc = t]

\* task.done()
Done(task) == task.pc \in {"done", "cancelled"}

Suspended(task) ==
    task.pc \in {"start_sleep", "probing", "sleep", "err_sleep", "in_callback"}

\* the manager, its tasks and the runtime as one value
HState ==
    [docker |-> docker, next_id |-> next_id, sockets |-> socket_files,
     configs |-> _health_check_configs,
     history |-> _health_status_history,
     htasks |-> _health_check_tasks,
     tasks |-> tasks, log |-> h_log]

HCommit(s) ==
    /\ docker' = s.docker
    /\ next_id' = s.next_id
    /\ socket_files' = s.sockets
    /\ _health_check_configs' = s.configs
    /\ _health_status_history' = s.history
    /\ _health_check_tasks' = s.htasks
    /\ tasks' = s.tasks
    /\ h_log' = s.log

\* task.cancel(): a task that has not run yet, or that is suspended, gets
\* CancelledError at its next step; the running task gets it at its next await
Cancel(task) == [task EXCEPT !.must_cancel = TRUE]

\* removes the task from the map and leaves it running
_stop_health_check_task_no_cancel(s, cid) ==
    IF s.htasks[cid] # NoTask
    THEN [s EXCEPT !.htasks[cid] = NoTask]
    ELSE s

_stop_health_check_task(s, cid) ==
    IF s.htasks[cid] # NoTask
    THEN LET t == s.htasks[cid]
         IN [s EXCEPT
               !.tasks[t] = IF ~Done(@) THEN Cancel(@) ELSE @,
               !.htasks[cid] = NoTask]
    ELSE s

FreeTask(s) == CHOOSE t \in TaskIds :
                  /\ s.tasks[t].pc = "unborn"
                  /\ \A u \in TaskIds : s.tasks[u].pc = "unborn" => t <= u

\* starts the new unit and leaves the previous one running
_start_health_check_task_keeping(s, cid) ==
    LET t == FreeTask(s)
    IN [s EXCEPT
          !.tasks[t] = [FreshTask EXCEPT !.pc = "new", !.cid = cid],
          !.htasks[cid] = t]

_start_health_check_task(s, cid) ==
    LET s1 == _stop_health_check_task(s, cid)
        t == FreeTask(s1)
    IN [s1 EXCEPT
          !.tasks[t] = [FreshTask EXCEPT !.pc = "new", !.cid = cid],
          !.htasks[cid] = t]

\* drops the config and the history and leaves the task
_cleanup_health_check_resources_keeping_task(s, cid) ==
    [s EXCEPT !.configs[cid] = NoConfig, !.history[cid] = NoHistory]

_cleanup_health_check_resources(s, cid) ==
    LET s1 == _stop_health_check_task(s, cid)
    IN [s1 EXCEPT !.configs[cid] = NoConfig,
                  !.history[cid] = NoHistory]

\* the smallest of a set of ids
First(ids) == CHOOSE i \in ids : \A j \in ids : i <= j

\* lines 643-644: every task of the map is stopped
RECURSIVE StopTasks(_, _)
StopTasks(s, ids) ==
    IF ids = {} THEN s
    ELSE StopTasks(_stop_health_check_task(s, First(ids)),
                   ids \ {First(ids)})

\* stops the tasks and clears the configs, not the histories
cleanup_all_health_checks_keeping_history(s) ==
    [StopTasks(s, {cid \in Ids : s.htasks[cid] # NoTask}) EXCEPT
       !.configs = [cid \in Ids |-> NoConfig]]

cleanup_all_health_checks(s) ==
    [StopTasks(s, {cid \in Ids : s.htasks[cid] # NoTask}) EXCEPT
       !.configs = [cid \in Ids |-> NoConfig],
       !.history = [cid \in Ids |-> NoHistory]]

set_health_check_config(s, cid, config) ==
    LET s1 == [s EXCEPT
                 !.configs[cid] = config,
                 !.history[cid] = IF @ = NoHistory
                                  THEN HealthStatusHistory ELSE @,
                 !.log[cid] = IF s.history[cid] = NoHistory
                              THEN << >> ELSE @]
    IN IF config.enabled
       THEN _start_health_check_task(s1, cid)
       ELSE _stop_health_check_task(s1, cid)

\* set_health_check_config, lines 1228-1234, for one id: the config is
\* replaced, a history is created only if the id has none
SetConfigOf(pair, config) ==
    [config |-> config,
     history |-> IF pair.history = NoHistory THEN HealthStatusHistory
                 ELSE pair.history]

\* delete_container: the runtime may refuse the stop or the remove.
\* Result: the state, whether the call raised and with what, and the
\* calls issued on the container after the lookup.
DeleteOutcomes == {"ok", "stop_fails", "remove_fails"}

delete_container_cleanup_first(s, cid, outcome) ==
    LET s0 == _cleanup_health_check_resources(s, cid)
    IN IF NotFound(s0.docker, cid)
       THEN [s |-> s0, raised |-> TRUE, error |-> "NotFound",
             calls |-> << >>]
       ELSE IF s0.docker[cid] = "running" /\ outcome = "stop_fails"
       THEN [s |-> s0, raised |-> TRUE, error |-> "APIError",
             calls |-> << "stop" >>]
       ELSE LET s1 == IF s0.docker[cid] = "running"
                      THEN [s0 EXCEPT !.docker[cid] = "exited"] ELSE s0
                stop == IF s0.docker[cid] = "running"
                        THEN << "stop" >> ELSE << >>
            IN IF outcome = "remove_fails"
               THEN [s |-> s1, raised |-> TRUE, error |-> "APIError",
                     calls |-> stop \o << "remove" >>]
               ELSE [s |-> [s1 EXCEPT !.docker[cid] = "removed",
                                      !.sockets = @ \ {cid}],
                     raised |-> FALSE, error |-> "none",
                     calls |-> stop \o << "remove" >>]

delete_container(s, cid, outcome) ==
    IF NotFound(s.docker, cid)
    THEN [s |-> s, raised |-> TRUE, error |-> "NotFound", calls |-> << >>]
    ELSE IF s.docker[cid] = "running" /\ outcome = "stop_fails"
    THEN [s |-> s, raised |-> TRUE, error |-> "APIError",
          calls |-> << "stop" >>]
    ELSE LET s1 == IF s.docker[cid] = "running"
                   THEN [s EXCEPT !.docker[cid] = "exited"] ELSE s
             stop == IF s.docker[cid] = "running"
                     THEN << "stop" >> ELSE << >>
             s2 == _cleanup_health_check_resources(s1, cid)
         IN IF outcome = "remove_fails"
            THEN [s |-> s2, raised |-> TRUE, error |-> "APIError",
                  calls |-> stop \o << "remove" >>]
            ELSE [s |-> [s2 EXCEPT !.docker[cid] = "removed",
                                   !.sockets = @ \ {cid}],
                  raised |-> FALSE, error |-> "none",
                  calls |-> stop \o << "remove" >>]

\* create_container: creates and starts a container under a fresh id
CanCreate(s) == s.next_id <= MaxIds

create_container(s) ==
    [s EXCEPT !.docker[s.next_id] = "running", !.next_id = @ + 1,
              !.sockets = @ \cup {s.next_id}]

restart_container(s, cid) == [s EXCEPT !.docker[cid] = "running"]

(***************************************************************************)
(* The recovery controller.  h_log[cid] lists the recovery actions that    *)
(* were executed against the history last stored under cid: the time, the  *)
(* value of recovery_attempts when the action started and the limits of    *)
(* the config it ran under.                                                *)
(***************************************************************************)
RecoveryOutcomes ==
    {"ok", "action_fails", "stop_fails", "remove_fails", "start_fails"}

Executed(h, config, outcome) ==
    [t |-> now, attempts |-> h.recovery_attempts,
     max |-> config.max_recovery_attempts,
     cooldown |-> config.recovery_cooldown,
     action |-> config.recovery_action,
     failed |-> outcome # "ok"]

\* lines 1742-1750: move the config and the history to the new id
Rekey(s, old, new) ==
    LET s1 == IF s.configs[old] # NoConfig
              THEN [s EXCEPT !.configs[new] = s.configs[old],
                             !.configs[old] = NoConfig]
              ELSE s
    IN IF s1.history[old] # NoHistory
       THEN [s1 EXCEPT !.history[new] = s1.history[old],
                       !.history[old] = NoHistory,
                       !.log[new] = s1.log[old]]
       ELSE s1

\* the action of the config, after the attempt was recorded
ExecuteRecovery(s, cid, config, outcome) ==
    IF config.recovery_action = "restart"
    THEN IF NotFound(s.docker, cid) \/ outcome = "action_fails"
         THEN s
         ELSE restart_container(s, cid)
    ELSE IF config.recovery_action = "recreate"
    THEN IF NotFound(s.docker, cid)
         THEN s
         ELSE LET d == delete_container(s, cid, outcome)
              IN IF d.raised THEN d.s
                 ELSE IF ~CanCreate(d.s) \/ outcome = "action_fails"
                 THEN d.s
                 ELSE LET new == d.s.next_id
                          s3 == create_container(d.s)
                      IN IF outcome = "start_fails"
                         THEN s3
                         ELSE Rekey(s3, cid, new)
    ELSE s

\* records the attempt only once the action has succeeded
_attempt_recovery_record_late(s, cid, config, outcome) ==
    LET s1 == [s EXCEPT !.log[cid] =
                 Append(@, Executed(s.history[cid], config, outcome))]
        s2 == ExecuteRecovery(s1, cid, config, outcome)
    IN IF outcome = "ok" /\ s2.history[cid] # NoHistory
       THEN [s2 EXCEPT !.history[cid] = record_recovery_attempt(@, now)]
       ELSE s2

_attempt_recovery(s, cid, config, outcome) ==
    LET s1 == [s EXCEPT !.history[cid] = record_recovery_attempt(@, now)]
        s2 == [s1 EXCEPT !.log[cid] =
                 Append(@, Executed(s1.history[cid], config, outcome))]
    IN ExecuteRecovery(s2, cid, config, outcome)

(***************************************************************************)
(* _health_check_loop, one step of a task from one await to the next       *)
(***************************************************************************)
\* lets the exception of a callback out to the caller
_safe_callback_propagating(how) ==
    CASE how \in {"raises", "async_raises"} -> "propagated"
      [] how = "async_suspends" -> "suspended"
      [] OTHER -> "returned"

\* _safe_callback: the callback is called, or awaited if it is a coroutine
\* function; what it raises is logged here
_safe_callback(how) ==
    CASE how \in {"raises", "async_raises"} -> "caught"
      [] how = "async_suspends" -> "suspended"
      [] OTHER -> "returned"

\* one entry of a unit's events: the probe with its result, the calls on
\* the history, the recovery (and whether it left the unit cancelled), a
\* callback, the interval sleep
Event(e) == [e |-> e, ok |-> TRUE, cancelled |-> FALSE, cb |-> 0]

\* line 1386: await asyncio.sleep(config.interval)
IntervalSleep(s, t) ==
    [s EXCEPT !.tasks[t].pc = "sleep",
              !.tasks[t].wake = now + s.tasks[t].config.interval,
              !.tasks[t].events = Append(@, Event("sleep"))]

\* lines 1368-1383: the callbacks from the j-th on, each through
\* _safe_callback, up to one that suspends; then the sleep
RECURSIVE RunHealthCallbacks(_, _, _)
RunHealthCallbacks(s, t, j) ==
    IF j > Len(_health_check_callbacks)
    THEN IntervalSleep(s, t)
    ELSE LET s1 == [s EXCEPT !.tasks[t].events =
                      Append(@, [Event("callback") EXCEPT !.cb = j])]
         IN IF _safe_callback(_health_check_callbacks[j]) = "suspended"
            THEN [s1 EXCEPT !.tasks[t].pc = "in_callback",
                            !.tasks[t].cb = j]
            ELSE RunHealthCallbacks(s1, t, j + 1)

Min(a, b) == IF a < b THEN a ELSE b

\* lets the exception of a failed recovery action out into the loop
_attempt_recovery_raises_propagating(outcome) == outcome # "ok"

\* lines 1760-1771: the except clause of _attempt_recovery logs whatever
\* the action raised; nothing is raised into the caller
_attempt_recovery_raises(outcome) == FALSE

\* lines 1390-1399: an exception in the loop body is logged and the unit
\* sleeps min(interval, 30)
BackoffSleep(s, t) ==
    [s EXCEPT !.tasks[t].pc = "err_sleep",
              !.tasks[t].wake = now + Min(s.tasks[t].config.interval, 30)]

\* lines 1358-1386: the result is in; history, recovery, callbacks, sleep
AfterProbe(s, t, result, outcome) ==
    LET task == s.tasks[t]
        cid == task.cid
        s1 == IF s.history[cid] # NoHistory
              THEN [s EXCEPT !.history[cid] =
                      add_result(@, result, DefaultMaxHistory)]
              ELSE s
        recovers == /\ s1.history[cid] # NoHistory
                    /\ should_recover(s1.history[cid], task.config, now)
        s2 == IF recovers
              THEN _attempt_recovery(s1, cid, task.config, outcome)
              ELSE s1
        events ==
            << [Event("probe") EXCEPT !.ok = result.success] >>
              \o (IF s.history[cid] # NoHistory
                  THEN << Event("add_result"), Event("should_recover") >>
                  ELSE << >>)
              \o (IF recovers
                  THEN << [Event("attempt_recovery") EXCEPT
                             !.cancelled = s2.tasks[t].must_cancel] >>
                  ELSE << >>)
        s3 == [s2 EXCEPT !.tasks[t].events = events, !.tasks[t].cb = 0]
    IN IF recovers /\ _attempt_recovery_raises(outcome)
       THEN BackoffSleep(s3, t)
       ELSE IF result.health = "unhealthy"
       THEN RunHealthCallbacks(s3, t, 1)
       ELSE IntervalSleep(s3, t)

\* the outcomes the runtime can produce for the recovery of this probe:
\* only "ok" when no recovery runs, no stop or start fault for a restart
Relevant(s, t, ok, outcome) ==
    LET task == s.tasks[t]
        h == s.history[task.cid]
        runs == /\ h # NoHistory
                /\ should_recover(add_result(h, HealthCheckResult(now, ok),
                                             DefaultMaxHistory),
                                  task.config, now)
    IN IF ~runs THEN outcome = "ok"
       ELSE IF task.config.recovery_action = "restart"
       THEN outcome \in {"ok", "action_fails"}
       ELSE TRUE

\* h_last after a step of a unit: a recreate recovery that ran to its end
\* (old container deleted, replacement created and started) is noted with
\* the config that was stored under the old id
UnitOp(s, s2, t, outcome) ==
    IF s2.next_id # s.next_id /\ outcome = "ok"
    THEN [op |-> "recreate", old |-> s.tasks[t].cid, new |-> s.next_id,
          config |-> s.configs[s.tasks[t].cid]]
    ELSE OtherOp

\* the first step of the task: lines 1336-1341
UnitStart(t) ==
    /\ tasks[t].pc = "new"
    /\ LET cid == tasks[t].cid
           config == _health_check_configs[cid]
       IN tasks' = [tasks EXCEPT ![t] =
            IF @.must_cancel THEN Finished("cancelled")
            ELSE IF config = NoConfig \/ ~config.enabled
            THEN Finished("done")
            ELSE [@ EXCEPT !.pc = "start_sleep", !.config = config,
                           !.wake = now + config.start_period]]
    /\ h_last' = OtherOp
    /\ UNCHANGED << now, m_vars, s_vars, u_vars, mon_vars, docker, next_id, socket_files,
                    _health_check_configs,
                    _health_status_history, _health_check_tasks,
                    h_log, h_probes, h_stale, h_budget >>

\* CancelledError is thrown into the suspended task: inside the try of the
\* loop it ends the loop, elsewhere it ends the task as cancelled
UnitCancelled(t) ==
    /\ Suspended(tasks[t])
    /\ tasks[t].must_cancel
    /\ tasks' = [tasks EXCEPT ![t] =
         IF @.pc \in {"sleep", "probing"}
         THEN Finished("done")
         ELSE IF @.pc = "in_callback"
         THEN [Finished("done") EXCEPT !.events = tasks[t].events]
         ELSE Finished("cancelled")]
    /\ h_last' = OtherOp
    /\ UNCHANGED << now, m_vars, s_vars, u_vars, mon_vars, docker, next_id, socket_files,
                    _health_check_configs,
                    _health_status_history, _health_check_tasks,
                    h_log, h_probes, h_stale, h_budget >>

\* a sleep is over: the container is looked up (lines 1346-1353) and the
\* probe starts; a probe that awaits no I/O completes in the same step
UnitWake(t) ==
    /\ tasks[t].pc \in {"start_sleep", "sleep", "err_sleep"}
    /\ ~tasks[t].must_cancel
    /\ now >= tasks[t].wake
    /\ LET task == tasks[t]
           cid == task.cid
       IN \/ /\ NotFound(docker, cid)
             /\ tasks' = [tasks EXCEPT ![t] = Finished("done")]
             /\ h_last' = OtherOp
             /\ UNCHANGED << docker, next_id, socket_files,
                             _health_check_configs,
                             _health_status_history, _health_check_tasks,
                             h_log, h_probes, h_budget >>
          \/ /\ h_budget.api_errors > 0
             /\ tasks' = [tasks EXCEPT
                   ![t].pc = "err_sleep",
                   ![t].wake = now + Min(task.config.interval, 30)]
             /\ h_budget' = [h_budget EXCEPT !.api_errors = @ - 1]
             /\ h_last' = OtherOp
             /\ UNCHANGED << docker, next_id, socket_files,
                             _health_check_configs,
                             _health_status_history, _health_check_tasks,
                             h_log, h_probes >>
          \/ /\ ~NotFound(docker, cid)
             /\ h_probes < MaxProbes
             /\ task.config.check_type \in AsyncCheckTypes
             /\ tasks' = [tasks EXCEPT ![t].pc = "probing",
                                       ![t].probe_start = now]
             /\ h_last' = OtherOp
             /\ UNCHANGED << docker, next_id, socket_files,
                             _health_check_configs,
                             _health_status_history, _health_check_tasks,
                             h_log, h_probes, h_budget >>
          \/ /\ ~NotFound(docker, cid)
             /\ h_probes < MaxProbes
             /\ task.config.check_type \in SyncCheckTypes
             /\ \E ok \in BOOLEAN, outcome \in RecoveryOutcomes :
                  LET s2 == AfterProbe(HState, t,
                                       HealthCheckResult(now, ok), outcome)
                  IN /\ Relevant(HState, t, ok, outcome)
                     /\ HCommit(s2)
                     /\ h_last' = UnitOp(HState, s2, t, outcome)
             /\ h_probes' = h_probes + 1
             /\ UNCHANGED h_budget
    /\ UNCHANGED << now, m_vars, s_vars, u_vars, mon_vars, h_stale >>

\* the callback the unit was suspended in is over: the next callbacks and
\* the interval sleep follow
UnitCallbackDone(t) ==
    /\ tasks[t].pc = "in_callback"
    /\ ~tasks[t].must_cancel
    /\ HCommit(RunHealthCallbacks(HState, t, tasks[t].cb + 1))
    /\ h_last' = OtherOp
    /\ UNCHANGED << now, m_vars, s_vars, u_vars, mon_vars, h_probes, h_stale,
                    h_budget >>

\* the awaited probe returns its result
UnitProbeDone(t) ==
    /\ tasks[t].pc = "probing"
    /\ ~tasks[t].must_cancel
    /\ \E ok \in BOOLEAN, outcome \in RecoveryOutcomes :
         LET s2 == AfterProbe(HState, t,
                     HealthCheckResult(tasks[t].probe_start, ok), outcome)
         IN /\ Relevant(HState, t, ok, outcome)
            /\ HCommit(s2)
            /\ h_last' = UnitOp(HState, s2, t, outcome)
    /\ h_probes' = h_probes + 1
    /\ h_stale' = (h_stale \/ docker[tasks[t].cid] = "removed")
    /\ UNCHANGED << now, m_vars, s_vars, u_vars, mon_vars, h_budget >>

(***************************************************************************)
(* socket_communication_handler.py: the JSON text of a message.  A string  *)
(* is a sequence of code points and a text a sequence of characters;       *)
(* json.dumps emits ASCII only (ensure_ascii), so each character of the    *)
(* text is one byte of its UTF-8 encoding.                                 *)
(***************************************************************************)
JNull == [t |-> "null", v |-> << >>]
JBool(b) == [t |-> "bool", v |-> b]
JInt(n) == [t |-> "int", v |-> n]
JStr(cs) == [t |-> "str", v |-> cs]
JList(items) == [t |-> "list", v |-> items]
JDict(members) == [t |-> "dict", v |-> members]

DigitChars == << "0", "1", "2", "3", "4", "5", "6", "7", "8", "9" >>

\* code points outside ASCII and the four hex digits of their \u escape
UnicodeEscapes == [c \in {"U+00E9"} |-> << "0", "0", "e", "9" >>]

RECURSIVE Digits(_)
Digits(n) ==
    IF n < 10 THEN << DigitChars[n + 1] >>
    ELSE Digits(n \div 10) \o << DigitChars[(n % 10) + 1] >>

EscapeChar(c) ==
    IF c = "\"" THEN << "\\", "\"" >>
    ELSE IF c = "\\" THEN << "\\", "\\" >>
    ELSE IF c \in DOMAIN UnicodeEscapes
    THEN << "\\", "u" >> \o UnicodeEscapes[c]
    ELSE << c >>

RECURSIVE EscapeChars(_)
EscapeChars(cs) ==
    IF Len(cs) = 0 THEN << >>
    ELSE EscapeChar(Head(cs)) \o EscapeChars(Tail(cs))

encode_basestring_ascii(cs) == << "\"" >> \o EscapeChars(cs) \o << "\"" >>

RECURSIVE json_dumps(_)
RECURSIVE DumpsItems(_)
RECURSIVE DumpsMembers(_)
json_dumps(x) ==
    CASE x.t = "null" -> << "n", "u", "l", "l" >>
      [] x.t = "bool" -> IF x.v THEN << "t", "r", "u", "e" >>
                         ELSE << "f", "a", "l", "s", "e" >>
      [] x.t = "int" -> IF x.v < 0 THEN << "-" >> \o Digits(0 - x.v)
                        ELSE Digits(x.v)
      [] x.t = "str" -> encode_basestring_ascii(x.v)
      [] x.t = "list" -> << "[" >> \o DumpsItems(x.v) \o << "]" >>
      [] x.t = "dict" -> << "{" >> \o DumpsMembers(x.v) \o << "}" >>

DumpsItems(items) ==
    IF Len(items) = 0 THEN << >>
    ELSE json_dumps(Head(items))
            \o (IF Len(items) > 1
                THEN << ",", " " >> \o DumpsItems(Tail(items))
                ELSE << >>)

DumpsMembers(members) ==
    IF Len(members) = 0 THEN << >>
    ELSE encode_basestring_ascii(Head(members)[1]) \o << ":", " " >>
            \o json_dumps(Head(members)[2])
            \o (IF Len(members) > 1
                THEN << ",", " " >> \o DumpsMembers(Tail(members))
                ELSE << >>)

\* json.loads: a recursive-descent reader of the text
NoParse == [ok |-> FALSE, val |-> JNull, rest |-> << >>]
Parsed(v, r) == [ok |-> TRUE, val |-> v, rest |-> r]
Drop(b, n) == SubSeq(b, n + 1, Len(b))
StartsWith(b, lit) == Len(b) >= Len(lit) /\ SubSeq(b, 1, Len(lit)) = lit

RECURSIVE SkipWs(_)
SkipWs(b) == IF Len(b) > 0 /\ Head(b) = " " THEN SkipWs(Tail(b)) ELSE b

RECURSIVE ParseStringBody(_, _)
ParseStringBody(b, acc) ==
    IF Len(b) = 0 THEN NoParse
    ELSE IF Head(b) = "\"" THEN Parsed(acc, Tail(b))
    ELSE IF Head(b) = "\\"
    THEN IF Len(b) < 2 THEN NoParse
         ELSE IF b[2] \in {"\"", "\\"}
         THEN ParseStringBody(Drop(b, 2), Append(acc, b[2]))
         ELSE IF /\ b[2] = "u"
                 /\ Len(b) >= 6
                 /\ \E c \in DOMAIN UnicodeEscapes :
                       UnicodeEscapes[c] = SubSeq(b, 3, 6)
         THEN ParseStringBody(
                 Drop(b, 6),
                 Append(acc, CHOOSE c \in DOMAIN UnicodeEscapes :
                                UnicodeEscapes[c] = SubSeq(b, 3, 6)))
         ELSE NoParse
    ELSE ParseStringBody(Tail(b), Append(acc, Head(b)))

IsDigit(c) == \E d \in 1..10 : DigitChars[d] = c
DigitValue(c) == (CHOOSE d \in 1..10 : DigitChars[d] = c) - 1

RECURSIVE ParseDigits(_, _, _)
ParseDigits(b, n, any) ==
    IF Len(b) > 0 /\ IsDigit(Head(b))
    THEN ParseDigits(Tail(b), n * 10 + DigitValue(Head(b)), TRUE)
    ELSE IF any THEN Parsed(n, b) ELSE NoParse

\* a dict keeps one entry per key: a repeated key replaces the value
PutMember(members, k, v) ==
    IF \E i \in 1..Len(members) : members[i][1] = k
    THEN [i \in 1..Len(members) |->
             IF members[i][1] = k THEN << k, v >> ELSE members[i]]
    ELSE Append(members, << k, v >>)

RECURSIVE ParseValue(_)
RECURSIVE ParseItems(_, _)
RECURSIVE ParseMembers(_, _)
ParseValue(b0) ==
    LET b == SkipWs(b0)
    IN IF Len(b) = 0 THEN NoParse
       ELSE IF StartsWith(b, << "n", "u", "l", "l" >>)
       THEN Parsed(JNull, Drop(b, 4))
       ELSE IF StartsWith(b, << "t", "r", "u", "e" >>)
       THEN Parsed(JBool(TRUE), Drop(b, 4))
       ELSE IF StartsWith(b, << "f", "a", "l", "s", "e" >>)
       THEN Parsed(JBool(FALSE), Drop(b, 5))
       ELSE IF Head(b) = "\""
       THEN LET r == ParseStringBody(Tail(b), << >>)
            IN IF r.ok THEN Parsed(JStr(r.val), r.rest) ELSE NoParse
       ELSE IF Head(b) = "-"
       THEN LET r == ParseDigits(Tail(b), 0, FALSE)
            IN IF r.ok THEN Parsed(JInt(0 - r.val), r.rest) ELSE NoParse
       ELSE IF IsDigit(Head(b))
       THEN LET r == ParseDigits(b, 0, FALSE)
            IN Parsed(JInt(r.val), r.rest)
       ELSE IF Head(b) = "["
       THEN LET b1 == SkipWs(Tail(b))
            IN IF Len(b1) > 0 /\ Head(b1) = "]"
               THEN Parsed(JList(<< >>), Tail(b1))
               ELSE ParseItems(b1, << >>)
       ELSE IF Head(b) = "{"
       THEN LET b1 == SkipWs(Tail(b))
            IN IF Len(b1) > 0 /\ Head(b1) = "}"
               THEN Parsed(JDict(<< >>), Tail(b1))
               ELSE ParseMembers(b1, << >>)
       ELSE NoParse

ParseItems(b, acc) ==
    LET r == ParseValue(b)
        b1 == SkipWs(r.rest)
    IN IF ~r.ok \/ Len(b1) = 0 THEN NoParse
       ELSE IF Head(b1) = "," THEN ParseItems(Tail(b1), Append(acc, r.val))
       ELSE IF Head(b1) = "]"
       THEN Parsed(JList(Append(acc, r.val)), Tail(b1))
       ELSE NoParse

ParseMembers(b, acc) ==
    LET b1 == SkipWs(b)
        k == IF Len(b1) > 0 /\ Head(b1) = "\""
             THEN ParseStringBody(Tail(b1), << >>) ELSE NoParse
        b2 == SkipWs(k.rest)
        r == IF Len(b2) > 0 /\ Head(b2) = ":"
             THEN ParseValue(Tail(b2)) ELSE NoParse
        b3 == SkipWs(r.rest)
    IN IF ~k.ok \/ ~r.ok \/ Len(b3) = 0 THEN NoParse
       ELSE IF Head(b3) = ","
       THEN ParseMembers(Tail(b3), PutMember(acc, k.val, r.val))
       ELSE IF Head(b3) = "}"
       THEN Parsed(JDict(PutMember(acc, k.val, r.val)), Tail(b3))
       ELSE NoParse

json_loads(b) ==
    LET r == ParseValue(b)
    IN IF r.ok /\ Len(SkipWs(r.rest)) = 0
       THEN [ok |-> TRUE, val |-> r.val]
       ELSE [ok |-> FALSE, val |-> JNull]

\* int.to_bytes(4, byteorder="big") and int.from_bytes(..., byteorder="big")
ToBytes4(n) ==
    << (n \div 16777216) % 256, (n \div 65536) % 256,
       (n \div 256) % 256, n % 256 >>

FromBytes4(bs) == bs[1] * 16777216 + bs[2] * 65536 + bs[3] * 256 + bs[4]

\* What travels on a connection: the bytes of the length, then the text.
EmptyWire == [head |-> << >>, body |-> << >>]

Frame(message) ==
    [head |-> ToBytes4(Len(json_dumps(message))),
     body |-> json_dumps(message)]

(***************************************************************************)
(* socket_communication_handler.py: SocketCommunicationHandler             *)
(***************************************************************************)
SockIds == {1, 2}

\* the peer of a container's socket: whether its connection waits in the
\* backlog, whether it reads what it is sent, what it sends and whether it
\* closes afterwards
NoPeer == [conn |-> "none", reads |-> FALSE, closes |-> FALSE,
           out |-> EmptyWire]

SockState ==
    [conns |-> _connections, status |-> _connection_status,
     files |-> sock_dir, peers |-> peers, delivered |-> delivered]

SockCommit(s) ==
    /\ _connections' = s.conns
    /\ _connection_status' = s.status
    /\ sock_dir' = s.files
    /\ peers' = s.peers
    /\ delivered' = s.delivered

is_socket_connected(s, container_id) == s.status[container_id] = "True"

SetupOutcomes == {"ok", "bind_fails"}

setup_socket(s, container_id, outcome) ==
    LET s1 == [s EXCEPT !.files = @ \ {container_id}]
    IN IF outcome = "bind_fails"
       THEN [s |-> s1, kind |-> "connection"]
       ELSE [s |-> [s1 EXCEPT !.files = @ \cup {container_id},
                              !.conns[container_id] = "listening",
                              !.status[container_id] = "True",
                              !.peers[container_id] = NoPeer],
             kind |-> "ok"]

CleanupOutcomes == {"ok", "close_fails", "unlink_fails"}

\* sock.close() releases the descriptor before it reports an error, so a
\* socket whose close failed stays in _connections as a closed object
cleanup_socket(s, container_id, outcome) ==
    IF s.conns[container_id] = "listening" /\ outcome = "close_fails"
    THEN [s |-> [s EXCEPT !.conns[container_id] = "closed",
                          !.peers[container_id] = NoPeer],
          kind |-> "ok"]
    ELSE LET s1 == [s EXCEPT !.conns[container_id] = "none",
                             !.peers[container_id] = NoPeer]
         IN IF container_id \in s1.files /\ outcome = "unlink_fails"
            THEN [s |-> s1, kind |-> "ok"]
            ELSE [s |-> [s1 EXCEPT !.files = @ \ {container_id},
                                   !.status[container_id] = "False"],
                  kind |-> "ok"]

\* sock.accept() on the non-blocking listening socket hands out the pending
\* connection, or raises and leaves client_sock = sock
Accepts(s, container_id) ==
    /\ s.conns[container_id] = "listening"
    /\ s.peers[container_id].conn = "pending"

\* what client_sock.send(data) can return for the n bytes of the text: n
\* if the whole frame fits the connection's buffer, else n or the number
\* of bytes the buffer took before the call was interrupted
SendSizes(n) ==
    IF 4 + n <= MaxQueued THEN {n} ELSE {MaxQueued - 4, n}

\* send_message has no timeout: a blocking send to a peer that does not
\* read returns only once the frame fits into the connection's buffer.
\* k is what the send of the text returns; the value is not looked at.
send_message(s, container_id, message, k) ==
    IF ~is_socket_connected(s, container_id)
    THEN [s |-> s, kind |-> "connection"]
    ELSE IF s.conns[container_id] = "none"
    THEN [s |-> s, kind |-> "communication"]
    ELSE IF Accepts(s, container_id)
    THEN LET p == s.peers[container_id]
             frame == Frame(message)
             written == [frame EXCEPT !.body = SubSeq(@, 1, k)]
             s1 == [s EXCEPT !.peers[container_id] = NoPeer]
         IN IF p.reads
            THEN [s |-> [s1 EXCEPT !.delivered[container_id] = written],
                  kind |-> "ok"]
            ELSE IF p.closes
            THEN [s |-> s1, kind |-> "communication"]
            ELSE IF 4 + k <= MaxQueued
            THEN [s |-> s1, kind |-> "ok"]
            ELSE [s |-> s1, kind |-> "blocked"]
    ELSE [s |-> s, kind |-> "communication"]

\* what one recv(n) can return when pending bytes are on their way: all
\* of them if the whole frame fits the connection's buffer, else what the
\* buffer holds at that moment
RecvSizes(pending, n) ==
    LET want == Min(n, pending)
    IN IF 4 + pending <= MaxQueued THEN {want}
       ELSE Min(want, MaxQueued - 4)..Min(want, MaxQueued)

Received(kind, value) == [kind |-> kind, value |-> value]

\* receive_message, lines 246-297, on an accepted connection; k is the
\* number of bytes the second recv returns
ReadFrame(p, k) ==
    IF Len(p.out.head) = 0
    THEN IF p.closes THEN Received("communication", JNull)
         ELSE Received("timeout", JNull)
    ELSE IF Len(p.out.head) # 4 THEN Received("communication", JNull)
    ELSE LET message_length == FromBytes4(p.out.head)
             message_data == SubSeq(p.out.body, 1, k)
         IN IF message_length > 0 /\ Len(p.out.body) = 0 /\ ~p.closes
            THEN Received("timeout", JNull)
            ELSE IF Len(message_data) # message_length
            THEN Received("communication", JNull)
            ELSE IF json_loads(message_data).ok
            THEN Received("ok", json_loads(message_data).val)
            ELSE Received("communication", JNull)

receive_message(s, container_id, k) ==
    IF ~is_socket_connected(s, container_id)
    THEN [s |-> s, kind |-> "connection", value |-> JNull]
    ELSE IF s.conns[container_id] = "none"
    THEN [s |-> s, kind |-> "connection", value |-> JNull]
    ELSE IF Accepts(s, container_id)
    THEN LET r == ReadFrame(s.peers[container_id], k)
         IN [s |-> [s EXCEPT !.peers[container_id] = NoPeer],
             kind |-> r.kind, value |-> r.value]
    ELSE [s |-> s, kind |-> "communication", value |-> JNull]

(***************************************************************************)
(* container_manager.py: update_container                                  *)
(***************************************************************************)
UpdateIds == 1..MaxUpdateIds

\* The directories an update touches.  binds says where the code bind of
\* each container points: nowhere, at the manager's <name>_code directory
\* (the volume) or at another host directory; host and volume are what the
\* other directory and <name>_code hold, backup what the backup directory
\* of the last update holds (every update names its own).
Dirs(mount, host, volume, backup) ==
    [binds |-> [i \in UpdateIds |-> IF i = 1 THEN mount ELSE "none"],
     host |-> host, volume |-> volume, backup |-> backup]

\* what the host directory of a code bind holds
HostCode(d, mount) ==
    CASE mount = "volume" -> d.volume
      [] mount = "elsewhere" -> d.host
      [] OTHER -> "absent"

WriteVolume(d, content) == [d EXCEPT !.volume = content]

WriteHost(d, mount, content) ==
    CASE mount = "volume" -> [d EXCEPT !.volume = content]
      [] mount = "elsewhere" -> [d EXCEPT !.host = content]
      [] OTHER -> d

UpdateSteps ==
    << "path", "get", "backup", "copy", "stop", "remove", "create",
       "start", "cleanup" >>

\* what a failing step raises: the runtime an APIError or NotFound, the
\* file system an OSError, which may be a FileNotFoundError
StepErrors(step) ==
    CASE step = "path" -> {"FileNotFoundError"}
      [] step = "get" -> {"NotFound"}
      [] step \in {"backup", "copy", "cleanup"} ->
            {"OSError", "FileNotFoundError"}
      [] OTHER -> {"APIError", "NotFound"}

\* lines 457-503, first part: the code directory is restored from the
\* backup of this call if there is one; the runtime is not called
Rollback(s, mount, rollback_ok) ==
    IF mount = "none" THEN s
    ELSE IF rollback_ok
    THEN [s EXCEPT !.fs = WriteHost(@, mount, s.fs.backup)]
    ELSE [s EXCEPT !.fs = WriteHost(@, mount, "absent")]

\* wraps every error in the generic update failure
Reraised_wrapping(error) == [kind |-> "APIError", original |-> FALSE]

\* lines 499-503: what the caller sees
Reraised(error) ==
    IF error \in {"NotFound", "APIError", "FileNotFoundError"}
    THEN [kind |-> error, original |-> TRUE]
    ELSE [kind |-> "APIError", original |-> FALSE]

Failed(s, backup_made, mount, step, error, rollback_ok) ==
    [s |-> IF backup_made THEN Rollback(s, mount, rollback_ok) ELSE s,
     step |-> step,
     error |-> error, raised |-> Reraised(error)]

\* update_container(container_id, code_path): the step named by fails
\* raises error, "none" lets every step succeed
Rank(step) == CHOOSE i \in DOMAIN UpdateSteps : UpdateSteps[i] = step

\* starts the replacement whatever the state of the original was
RuntimeCalls_always_start(s, container_id, fails) ==
    IF fails = "path"
          \/ s.docker[container_id] \notin {"running", "exited", "created"}
    THEN << >>
    ELSE LET was_running == s.docker[container_id] = "running"
             has_backup == HostCode(s.fs, s.fs.binds[container_id]) # "absent"
             made(step) ==
                 /\ step = "stop" => was_running
                 /\ step = "cleanup" => has_backup
                 /\ fails = "none" \/ Rank(step) <= Rank(fails)
             steps == SelectSeq(<< "stop", "remove", "create", "start",
                                   "cleanup" >>, made)
         IN [i \in DOMAIN steps |->
               [call |-> steps[i], ok |-> steps[i] # fails]]

\* lines 371-455: the calls on the runtime and the removal of the backup,
\* in the order they are made, up to the one that fails
RuntimeCalls(s, container_id, fails) ==
    IF fails = "path"
          \/ s.docker[container_id] \notin {"running", "exited", "created"}
    THEN << >>
    ELSE LET was_running == s.docker[container_id] = "running"
             has_backup == HostCode(s.fs, s.fs.binds[container_id]) # "absent"
             made(step) ==
                 /\ step \in {"stop", "start"} => was_running
                 /\ step = "cleanup" => has_backup
                 /\ fails = "none" \/ Rank(step) <= Rank(fails)
             steps == SelectSeq(<< "stop", "remove", "create", "start",
                                   "cleanup" >>, made)
         IN [i \in DOMAIN steps |->
               [call |-> steps[i], ok |-> steps[i] # fails]]

\* the call was made and returned
Returned(calls, step) ==
    \E i \in DOMAIN calls : calls[i].call = step /\ calls[i].ok

update_container(s, container_id, fails, error, rollback_ok) ==
    LET s0 == [s EXCEPT !.fs.backup = "none"]
        calls == RuntimeCalls(s, container_id, fails)
    IN
    IF fails = "path"
    THEN Failed(s0, FALSE, "none", "path", "FileNotFoundError", TRUE)
    ELSE IF s.docker[container_id] \notin {"running", "exited", "created"}
    THEN Failed(s0, FALSE, "none", "get", "NotFound", TRUE)
    ELSE
    LET was_running == s.docker[container_id] = "running"
        mount == s.fs.binds[container_id]
        has_backup == HostCode(s.fs, mount) # "absent"
        \* a copytree that fails leaves a part of the copy behind
        \* and one that cannot read its source creates nothing
        s1 == IF has_backup
              THEN [s0 EXCEPT !.fs.backup =
                       CASE fails # "backup" -> HostCode(s.fs, mount)
                         [] error = "FileNotFoundError" -> "none"
                         [] OTHER -> "partial"]
              ELSE s0
        made == has_backup /\ s1.fs.backup # "none"
        s2 == [s1 EXCEPT !.fs = WriteVolume(@, IF fails = "copy"
                                               THEN "partial" ELSE "new")]
        s3 == IF Returned(calls, "stop")
              THEN [s2 EXCEPT !.docker[container_id] = "exited"] ELSE s2
        s4 == [s3 EXCEPT !.docker[container_id] = "removed"]
        new == s.next_id
        s5 == [s4 EXCEPT !.docker[new] = "created", !.next_id = @ + 1,
                         !.fs.binds[new] = "volume"]
        s6 == IF Returned(calls, "start")
              THEN [s5 EXCEPT !.docker[new] = "running"] ELSE s5
    IN CASE fails = "backup" -> Failed(s1, made, mount, fails, error, rollback_ok)
         [] fails = "copy" -> Failed(s2, made, mount, fails, error, rollback_ok)
         [] fails = "stop" -> Failed(s3, made, mount, fails, error, rollback_ok)
         [] fails = "remove" -> Failed(s3, made, mount, fails, error, rollback_ok)
         [] fails = "create" -> Failed(s4, made, mount, fails, error, rollback_ok)
         [] fails = "start" -> Failed(s5, made, mount, fails, error, rollback_ok)
         [] fails = "cleanup" -> Failed(s6, made, mount, fails, error, rollback_ok)
         [] OTHER -> [s |-> [s6 EXCEPT !.fs.backup = "none"],
                      step |-> "none", error |-> "none",
                      raised |-> [kind |-> "none", original |-> TRUE]]

\* the steps that can fail in this call: a backup is made and removed only
\* if the bind's directory exists, the container is stopped and the new one
\* started only if the original was running
CanFail(s, container_id, fails) ==
    LET known == s.docker[container_id] \in {"running", "exited", "created"}
        was_running == s.docker[container_id] = "running"
        has_backup == HostCode(s.fs, s.fs.binds[container_id]) # "absent"
    IN CASE fails \in {"none", "path"} -> TRUE
         [] fails = "get" -> ~known
         [] fails \in {"backup", "cleanup"} -> known /\ has_backup
         [] fails \in {"stop", "start"} -> known /\ was_running
         [] OTHER -> known

(***************************************************************************)
(* container_manager.py, socket_event_handler.py: the resource thresholds  *)
(***************************************************************************)
\* a thresholds dictionary is a function from its keys to its values
valid_keys ==
    {"cpu_percent", "memory_percent", "disk_read_bytes_per_sec",
     "disk_write_bytes_per_sec", "network_rx_bytes_per_sec",
     "network_tx_bytes_per_sec"}

\* ContainerManager.set_resource_thresholds: the known keys are stored,
\* the others are passed over
set_resource_thresholds(current, thresholds) ==
    [thresholds |->
         [k \in DOMAIN current |->
            IF k \in DOMAIN thresholds THEN thresholds[k] ELSE current[k]],
     failed |-> FALSE]

\* SocketIOEventHandler.handle_set_resource_thresholds: the event data is
\* validated, then the manager's setter is called
handle_set_resource_thresholds(current, thresholds) ==
    IF \E k \in DOMAIN thresholds : k \notin valid_keys \/ thresholds[k] < 0
    THEN [thresholds |-> current, emitted |-> "validation_error"]
    ELSE [thresholds |-> set_resource_thresholds(current, thresholds).thresholds,
          emitted |-> "resource_thresholds_updated"]

(***************************************************************************)
(* The parts at rest, for the specifications that do not drive them        *)
(***************************************************************************)
MIdle ==
    /\ m_cfg = HealthCheckConfig(TRUE, TRUE, "restart", 0, 0)
    /\ m_hist = HealthStatusHistory
    /\ m_ret = [called |-> FALSE, value |-> FALSE]
    /\ m_added = << >>
    /\ m_pat = "free"

HIdle ==
    /\ docker = [i \in Ids |-> "absent"]
    /\ next_id = 1
    /\ socket_files = {}
    /\ _health_check_configs = [i \in Ids |-> NoConfig]
    /\ _health_status_history = [i \in Ids |-> NoHistory]
    /\ _health_check_tasks = [i \in Ids |-> NoTask]
    /\ tasks = [t \in TaskIds |-> FreshTask]
    /\ h_log = [i \in Ids |-> << >>]
    /\ h_probes = 0
    /\ h_stale = FALSE
    /\ h_last = OtherOp
    /\ h_budget = [set_config |-> 0, api_errors |-> 0, runtime_removes |-> 0]

Containers == {1, 2}
LoopIds == 1..MaxLoops
NoLoop == 0

\* __init__, lines 60-67
DefaultThresholds ==
    [cpu_percent |-> 80, memory_percent |-> 85,
     disk_read_bytes_per_sec |-> 100 * MiB,
     disk_write_bytes_per_sec |-> 100 * MiB,
     network_rx_bytes_per_sec |-> 50 * MiB,
     network_tx_bytes_per_sec |-> 50 * MiB]

StatsNames == {"calm", "busy", "idle", "fails"}

\* what the runtime reports for a container: State.Status, State.ExitCode,
\* State.Health.Status and the stats it serves
Reported(status, exit_code, health, stats) ==
    [status |-> status, exit_code |-> exit_code, health |-> health,
     stats |-> stats]

\* the runtime does not list the container
Absent == Reported("absent", 0, "none", "fails")

UnbornLoop ==
    [pc |-> "unborn", must_cancel |-> FALSE, wake |-> 0, queue |-> << >>,
     plan |-> << >>, chk |-> [cid |-> 0]]

MonIdle ==
    /\ m_docker = [c \in Containers |-> Absent]
    /\ _container_states = [c \in Containers |-> "none"]
    /\ _resource_usage_history = [c \in Containers |-> << >>]
    /\ _resource_thresholds = DefaultThresholds
    /\ _resource_monitoring_enabled = TRUE
    /\ _status_change_callbacks = << >>
    /\ _health_check_callbacks = << >>
    /\ _crash_callbacks = << >>
    /\ _resource_alert_callbacks = << >>
    /\ _monitoring_active = FALSE
    /\ _monitoring_task = NoLoop
    /\ loops = [t \in LoopIds |-> UnbornLoop]
    /\ stops = {}
    /\ mon_last = [op |-> "init"]
    /\ mon_added = [c \in Containers |-> << >>]
    /\ mon_budget = [calls |-> 0, runtime |-> 0, list_errors |-> 0,
                     same_time |-> 0, checks |-> 0]

SIdle ==
    /\ _connections = [i \in SockIds |-> "none"]
    /\ _connection_status = [i \in SockIds |-> "unset"]
    /\ sock_dir = {}
    /\ peers = [i \in SockIds |-> NoPeer]
    /\ delivered = [i \in SockIds |-> EmptyWire]
    /\ s_msgs = {}
    /\ s_last = [op |-> "init", n |-> 0, accepted |-> {}]
    /\ s_budget = [setup |-> 0, cleanup |-> 0, send |-> 0, recv |-> 0,
                   peer |-> 0, faults |-> 0]

UIdle ==
    /\ u_docker = [i \in UpdateIds |-> "absent"]
    /\ u_next_id = 1
    /\ fs = Dirs("none", "absent", "absent", "none")
    /\ u_last = [op |-> "init"]
    /\ u_budget = 0

(***************************************************************************)
(* Calls of the manager's callers, the runtime and the clock               *)
(***************************************************************************)
\* callers name ids the runtime has handed out
CallSetHealthCheckConfig(cid, kwargs) ==
    /\ docker[cid] # "absent"
    /\ \/ /\ Constructs(kwargs)
          /\ h_budget.set_config > 0
          /\ kwargs.enabled => \E t \in TaskIds : tasks[t].pc = "unborn"
          /\ HCommit(set_health_check_config(HState, cid, kwargs))
          /\ h_budget' = [h_budget EXCEPT !.set_config = @ - 1]
          /\ h_last' = OtherOp
       \/ /\ ~Constructs(kwargs)
          /\ HCommit(HState)
          /\ h_last' = [op |-> "set_health_check_config", raised |-> TRUE]
          /\ UNCHANGED h_budget
    /\ UNCHANGED << now, m_vars, s_vars, u_vars, mon_vars, h_probes, h_stale >>

CallDeleteContainer(cid, outcome) ==
    /\ LET d == delete_container(HState, cid, outcome)
       IN /\ HCommit(d.s)
          /\ h_last' = [op |-> "delete_container", cid |-> cid,
                        raised |-> d.raised, error |-> d.error,
                        calls |-> d.calls]
    /\ UNCHANGED << now, m_vars, s_vars, u_vars, mon_vars, h_probes, h_stale, h_budget >>

\* cleanup_all_health_checks has no await: it runs in one step
CallCleanupAllHealthChecks ==
    /\ HCommit(cleanup_all_health_checks(HState))
    /\ h_last' = [op |-> "cleanup_all_health_checks",
                  configs |-> {cid \in Ids :
                                 _health_check_configs[cid] # NoConfig},
                  units |-> {cid \in Ids : _health_check_tasks[cid] # NoTask}]
    /\ UNCHANGED << now, m_vars, s_vars, u_vars, mon_vars, h_probes, h_stale,
                    h_budget >>

\* The container is removed behind the manager's back (docker rm -f): the
\* runtime forgets the id, the manager's maps and the socket file stay.
RuntimeRemoves(cid) ==
    /\ h_budget.runtime_removes > 0
    /\ docker[cid] \in {"running", "exited"}
    /\ docker' = [docker EXCEPT ![cid] = "gone"]
    /\ h_budget' = [h_budget EXCEPT !.runtime_removes = @ - 1]
    /\ h_last' = OtherOp
    /\ UNCHANGED << now, m_vars, s_vars, u_vars, mon_vars, next_id, socket_files,
                    _health_check_configs, _health_status_history,
                    _health_check_tasks, tasks, h_log, h_probes, h_stale >>

HTick ==
    /\ now + TickStep <= MaxClock
    /\ now' = now + TickStep
    /\ h_last' = OtherOp
    /\ UNCHANGED << m_vars, s_vars, u_vars, mon_vars, docker, next_id, socket_files,
                    _health_check_configs,
                    _health_status_history, _health_check_tasks, tasks,
                    h_log, h_probes, h_stale, h_budget >>

\* one running container, no health check configured yet
InitHealth ==
    /\ now = 0
    /\ MIdle
    /\ SIdle
    /\ UIdle
    /\ MonIdle
    /\ docker = [i \in Ids |-> IF i = 1 THEN "running" ELSE "absent"]
    /\ next_id = 2
    /\ socket_files = {1}
    /\ _health_check_configs = [i \in Ids |-> NoConfig]
    /\ _health_status_history = [i \in Ids |-> NoHistory]
    /\ _health_check_tasks = [i \in Ids |-> NoTask]
    /\ tasks = [t \in TaskIds |-> FreshTask]
    /\ h_log = [i \in Ids |-> << >>]
    /\ h_probes = 0
    /\ h_stale = FALSE
    /\ h_last = OtherOp
    /\ h_budget = [set_config |-> MaxSetConfig, api_errors |-> MaxApiErrors,
                   runtime_removes |-> MaxRuntimeRemoves]

NextHealth ==
    \/ \E t \in TaskIds : UnitStart(t)
    \/ \E t \in TaskIds : UnitCancelled(t)
    \/ \E t \in TaskIds : UnitWake(t)
    \/ \E t \in TaskIds : UnitProbeDone(t)
    \/ \E cid \in Ids, kwargs \in ConfigArgs :
          CallSetHealthCheckConfig(cid, kwargs)
    \/ \E cid \in Ids, outcome \in DeleteOutcomes :
          CallDeleteContainer(cid, outcome)
    \/ \E cid \in Ids : RuntimeRemoves(cid)
    \/ HTick

SpecHealth == InitHealth /\ [][NextHealth]_vars

(***************************************************************************)
(* container_manager.py: resource usage                                    *)
(***************************************************************************)
\* What container.stats(stream=False) returns.  Percentages are kept in
\* hundredths of a percent, which is what round(x, 2) keeps of them.
StatsProfiles ==
    [calm |-> [cpu_total |-> 1000, precpu_total |-> 500,
               system |-> 10000, presystem |-> 8000, online_cpus |-> 1,
               usage |-> 256, limit |-> 512,
               network_rx |-> 4096, network_tx |-> 2048,
               disk_read |-> 8192, disk_write |-> 1024],
     busy |-> [cpu_total |-> 8000, precpu_total |-> 2000,
               system |-> 10000, presystem |-> 8000, online_cpus |-> 2,
               usage |-> 90, limit |-> 100,
               network_rx |-> 600 * MiB, network_tx |-> 300 * MiB,
               disk_read |-> 600 * MiB, disk_write |-> 100 * MiB + 1024],
     idle |-> [cpu_total |-> 500, precpu_total |-> 500,
               system |-> 8000, presystem |-> 8000, online_cpus |-> 1,
               usage |-> 0, limit |-> 0,
               network_rx |-> 0, network_tx |-> 0,
               disk_read |-> 0, disk_write |-> 0]]

NoUsage == [empty |-> TRUE]
NoRates == [absent |-> TRUE]

\* a / b rounded to the nearest integer, for a >= 0 and b > 0
RoundDiv(a, b) == (2 * a + b) \div (2 * b)

\* returns a snapshot of zeros when reading the stats raises
_get_resource_usage_zeros(stats_name, t) ==
    [cpu_percent |-> 0, memory_usage |-> 0, memory_limit |-> 0,
     memory_percent |-> 0, network_rx_bytes |-> 0, network_tx_bytes |-> 0,
     disk_read_bytes |-> 0, disk_write_bytes |-> 0, timestamp |-> t,
     rates |-> NoRates]

\* _get_resource_usage at time t; {} when reading the stats raises
_get_resource_usage(stats_name, t) ==
    IF stats_name = "fails" THEN NoUsage
    ELSE LET st == StatsProfiles[stats_name]
             cpu_delta == st.cpu_total - st.precpu_total
             system_delta == st.system - st.presystem
         IN [cpu_percent |-> IF system_delta > 0
                             THEN RoundDiv(cpu_delta * st.online_cpus * 10000,
                                           system_delta)
                             ELSE 0,
             memory_usage |-> st.usage,
             memory_limit |-> st.limit,
             memory_percent |-> IF st.limit > 0
                                THEN RoundDiv(st.usage * 10000, st.limit)
                                ELSE 0,
             network_rx_bytes |-> st.network_rx,
             network_tx_bytes |-> st.network_tx,
             disk_read_bytes |-> st.disk_read,
             disk_write_bytes |-> st.disk_write,
             timestamp |-> t,
             rates |-> NoRates]

\* a rate, kept as the fraction the code divides
Rate(cur, prev, time_delta) == [num |-> cur - prev, den |-> time_delta]

\* keeps the oldest snapshots when the list is full
_check_resource_usage_drop_newest(history, resource_usage) ==
    LET appended == Append(history, resource_usage)
    IN IF Len(appended) > ResourceHistoryLimit
       THEN SubSeq(appended, 1, ResourceHistoryLimit)
       ELSE appended

\* _check_resource_usage, lines 1788-1831: the list of the container after
\* the snapshot is appended, the oldest one dropped beyond the limit and
\* the I/O rates written into the snapshot just stored
_check_resource_usage(history, resource_usage) ==
    LET appended == Append(history, resource_usage)
        kept == IF Len(appended) > ResourceHistoryLimit
                THEN Tail(appended) ELSE appended
        n == Len(kept)
        time_delta == IF n >= 2
                      THEN kept[n].timestamp - kept[n - 1].timestamp
                      ELSE 0
    IN IF n >= 2 /\ time_delta > 0
       THEN [kept EXCEPT ![n].rates =
               [disk_read_bytes_per_sec |->
                    Rate(kept[n].disk_read_bytes,
                         kept[n - 1].disk_read_bytes, time_delta),
                disk_write_bytes_per_sec |->
                    Rate(kept[n].disk_write_bytes,
                         kept[n - 1].disk_write_bytes, time_delta),
                network_rx_bytes_per_sec |->
                    Rate(kept[n].network_rx_bytes,
                         kept[n - 1].network_rx_bytes, time_delta),
                network_tx_bytes_per_sec |->
                    Rate(kept[n].network_tx_bytes,
                         kept[n - 1].network_tx_bytes, time_delta)]]
       ELSE kept

\* num / den > limit, for den > 0, without rounding
RatGT(num, den, limit) ==
    \/ num \div den > limit
    \/ (num \div den = limit /\ num % den > 0)

\* the six comparisons of _check_resource_thresholds, in their order
ResourceTypes ==
    << "cpu_percent", "memory_percent", "disk_read_bytes_per_sec",
       "disk_write_bytes_per_sec", "network_rx_bytes_per_sec",
       "network_tx_bytes_per_sec" >>

\* resource_usage.get(key, 0): the percentages are always in the snapshot,
\* a rate only once it was computed
CurrentValue(resource_usage, key) ==
    IF key \in {"cpu_percent", "memory_percent"} THEN resource_usage[key]
    ELSE IF resource_usage.rates = NoRates THEN 0
    ELSE resource_usage.rates[key]

Exceeds(resource_usage, thresholds, key) ==
    IF key \in {"cpu_percent", "memory_percent"}
    THEN resource_usage[key] > 100 * thresholds[key]
    ELSE IF resource_usage.rates = NoRates THEN 0 > thresholds[key]
    ELSE RatGT(resource_usage.rates[key].num,
               resource_usage.rates[key].den, thresholds[key])

\* alerts at the threshold as well as above it
_check_resource_thresholds_at_or_above(resource_usage, thresholds) ==
    LET hit == SelectSeq(ResourceTypes,
                   LAMBDA key :
                      IF key \in {"cpu_percent", "memory_percent"}
                      THEN resource_usage[key] >= 100 * thresholds[key]
                      ELSE IF resource_usage.rates = NoRates
                      THEN 0 >= thresholds[key]
                      ELSE resource_usage.rates[key].num
                              >= thresholds[key]
                                    * resource_usage.rates[key].den)
    IN [i \in 1..Len(hit) |->
          [resource_type |-> hit[i],
           current_value |-> CurrentValue(resource_usage, hit[i]),
           threshold |-> thresholds[hit[i]]]]

\* _check_resource_thresholds, lines 1856-1928: alerts_triggered
_check_resource_thresholds(resource_usage, thresholds) ==
    LET hit == SelectSeq(ResourceTypes,
                   LAMBDA key : Exceeds(resource_usage, thresholds, key))
    IN [i \in 1..Len(hit) |->
          [resource_type |-> hit[i],
           current_value |-> CurrentValue(resource_usage, hit[i]),
           threshold |-> thresholds[hit[i]]]]

(***************************************************************************)
(* container_manager.py: the monitoring loop                               *)
(***************************************************************************)
ContainerState ==
    {"created", "running", "stopped", "paused", "restarting", "removing",
     "exited", "dead"}

MonitorInterval == 5
MonitorBackoff == 10

\* what the runtime can report for a container
RuntimeReports ==
    { Reported("running", 0, "none", "calm"),
      Reported("running", 0, "unhealthy", "busy"),
      Reported("running", 0, "healthy", "fails"),
      Reported("restarting", 1, "none", "fails"),
      Reported("exited", 0, "none", "fails"),
      Reported("exited", 1, "none", "fails"),
      Reported("dead", 137, "unhealthy", "fails"),
      Reported("unknown", 1, "none", "fails"),
      Absent }

\* A registered callback is a plain function ("sync"), a coroutine function
\* that completes without suspending ("async"), one that suspends before
\* it completes ("async_suspends"), a function that raises ("raises") or a
\* coroutine function that raises ("async_raises").
NoCallbacks ==
    [status |-> << >>, health |-> << >>, crash |-> << >>, alert |-> << >>]

CallbackSetups ==
    { NoCallbacks,
      [status |-> << "sync" >>, health |-> << "async" >>,
       crash |-> << "raises", "sync" >>, alert |-> << "sync" >>],
      [status |-> << "async_suspends" >>, health |-> << "sync" >>,
       crash |-> << "sync", "async_suspends" >>,
       alert |-> << "async_suspends" >>] }

NoCheck == [cid |-> 0]

FreshLoop ==
    [pc |-> "new", must_cancel |-> FALSE, wake |-> 0, queue |-> << >>,
     plan |-> << >>, chk |-> NoCheck]

LoopFinished(l) == l.pc \in {"unborn", "done", "cancelled"}

\* the monitor as one value
MonState ==
    [docker |-> m_docker, states |-> _container_states,
     rhist |-> _resource_usage_history, added |-> mon_added,
     active |-> _monitoring_active, task |-> _monitoring_task,
     loops |-> loops, stops |-> stops, last |-> mon_last]

MonCommit(s) ==
    /\ _container_states' = s.states
    /\ _resource_usage_history' = s.rhist
    /\ mon_added' = s.added
    /\ _monitoring_active' = s.active
    /\ _monitoring_task' = s.task
    /\ loops' = s.loops
    /\ stops' = s.stops
    /\ mon_last' = s.last

MonFixed ==
    UNCHANGED << _resource_thresholds, _resource_monitoring_enabled,
                 _status_change_callbacks, _health_check_callbacks,
                 _crash_callbacks, _resource_alert_callbacks >>

FreeLoop == CHOOSE t \in LoopIds :
               /\ loops[t].pc = "unborn"
               /\ \A u \in LoopIds : loops[u].pc = "unborn" => t <= u

\* creates a second loop task when one is already running
start_monitoring_unguarded(s) ==
    [s EXCEPT !.active = TRUE, !.task = FreeLoop,
              !.loops[FreeLoop] = FreshLoop]

\* start_monitoring
start_monitoring(s) ==
    IF s.active THEN s
    ELSE [s EXCEPT !.active = TRUE, !.task = FreeLoop,
                   !.loops[FreeLoop] = FreshLoop]

\* stop_monitoring up to its await: the flag is cleared, the task is
\* cancelled; awaiting a task that is already finished does not suspend
stop_monitoring(s) ==
    IF ~s.active THEN s
    ELSE IF s.task = NoLoop THEN [s EXCEPT !.active = FALSE]
    ELSE IF LoopFinished(s.loops[s.task])
    THEN [s EXCEPT !.active = FALSE, !.task = NoLoop]
    ELSE [s EXCEPT !.active = FALSE,
                   !.loops[s.task].must_cancel = TRUE,
                   !.stops = @ \cup {s.task}]

\* the steps of one container check that are still to run
CallbackOps(kind, callbacks, args) ==
    [j \in 1..Len(callbacks) |->
       [op |-> "callback", kind |-> kind, cb |-> j, how |-> callbacks[j],
        args |-> args]]

ParseState(state_str) ==
    IF state_str \in ContainerState THEN state_str ELSE "dead"

\* fires the crash callbacks whatever the exit code is
_check_container_crash_any_exit_code(cid, attrs) ==
    CallbackOps("crash", _crash_callbacks,
                << cid, attrs.exit_code, [exit_code |-> attrs.exit_code] >>)

\* _check_container_crash
_check_container_crash(cid, attrs) ==
    IF attrs.exit_code # 0
    THEN CallbackOps("crash", _crash_callbacks,
                     << cid, attrs.exit_code,
                        [exit_code |-> attrs.exit_code] >>)
    ELSE << >>

\* _check_container_health
_check_container_health(cid, attrs) ==
    LET health == IF attrs.health \in ContainerHealth
                  THEN attrs.health ELSE "none"
    IN IF health = "unhealthy"
       THEN CallbackOps("health", _health_check_callbacks, << cid, health >>)
       ELSE << >>

\* answers from the state the monitoring stored at its last poll
get_container_status_stored(s, container_id, t) ==
    LET attrs == s.docker[container_id]
    IN IF attrs = Absent
       THEN [raised |-> TRUE, error |-> "NotFound"]
       ELSE [raised |-> FALSE, id |-> container_id,
             state |-> IF s.states[container_id] = "none"
                       THEN ParseState(attrs.status)
                       ELSE s.states[container_id],
             health |-> IF attrs.health \in ContainerHealth
                        THEN attrs.health ELSE "none",
             resource_usage |-> _get_resource_usage(attrs.stats, t)]

\* get_container_status: the container is fetched and reloaded, its
\* attributes are parsed
get_container_status(s, container_id, t) ==
    LET attrs == s.docker[container_id]
    IN IF attrs = Absent
       THEN [raised |-> TRUE, error |-> "NotFound"]
       ELSE [raised |-> FALSE, id |-> container_id,
             state |-> ParseState(attrs.status),
             health |-> IF attrs.health \in ContainerHealth
                        THEN attrs.health ELSE "none",
             resource_usage |-> _get_resource_usage(attrs.stats, t)]

\* notifies also the first time a container is seen
StatusChanged_first_seen(previous_state, current_state) ==
    previous_state # current_state

\* line 1057: a state is cached and it is not the one just read
StatusChanged(previous_state, current_state) ==
    previous_state # "none" /\ previous_state # current_state

\* looks for a crash only when the state has just changed
_check_container_status_on_transition(s, t, cid) ==
    LET attrs == s.docker[cid]
    IN IF attrs = Absent
       THEN [s EXCEPT !.loops[t].plan = << >>,
                      !.loops[t].chk =
                          [cid |-> cid, reloaded |-> FALSE, stored |-> FALSE,
                           completed |-> FALSE, calls |-> << >>,
                           errors |-> << >>]]
       ELSE LET current_state == ParseState(attrs.status)
                previous_state == s.states[cid]
            IN [s EXCEPT
                  !.loops[t].chk =
                      [cid |-> cid, reloaded |-> TRUE, attrs |-> attrs,
                       previous_state |-> previous_state,
                       current_state |-> current_state,
                       stored |-> FALSE, completed |-> FALSE,
                       calls |-> << >>, errors |-> << >>],
                  !.loops[t].plan =
                      (IF StatusChanged(previous_state, current_state)
                       THEN CallbackOps("status", _status_change_callbacks,
                                << cid, previous_state, current_state >>)
                       ELSE << >>)
                      \o << [op |-> "store"] >>
                      \o (IF /\ current_state \in {"exited", "dead"}
                             /\ previous_state # current_state
                          THEN _check_container_crash(cid, attrs)
                          ELSE << >>)
                      \o _check_container_health(cid, attrs)
                      \o << [op |-> "resource"] >>]

\* _check_container_status up to its first await: the container is
\* reloaded, its state parsed and compared with the cached one
_check_container_status(s, t, cid) ==
    LET attrs == s.docker[cid]
    IN IF attrs = Absent
       THEN [s EXCEPT !.loops[t].plan = << >>,
                      !.loops[t].chk =
                          [cid |-> cid, reloaded |-> FALSE, stored |-> FALSE,
                           completed |-> FALSE, calls |-> << >>,
                           errors |-> << >>]]
       ELSE LET current_state == ParseState(attrs.status)
                previous_state == s.states[cid]
            IN [s EXCEPT
                  !.loops[t].chk =
                      [cid |-> cid, reloaded |-> TRUE, attrs |-> attrs,
                       previous_state |-> previous_state,
                       current_state |-> current_state,
                       stored |-> FALSE, completed |-> FALSE,
                       calls |-> << >>, errors |-> << >>],
                  !.loops[t].plan =
                      (IF StatusChanged(previous_state, current_state)
                       THEN CallbackOps("status", _status_change_callbacks,
                                << cid, previous_state, current_state >>)
                       ELSE << >>)
                      \o << [op |-> "store"] >>
                      \o (IF current_state \in {"exited", "dead"}
                          THEN _check_container_crash(cid, attrs)
                          ELSE << >>)
                      \o _check_container_health(cid, attrs)
                      \o << [op |-> "resource"] >>]

\* _check_resource_thresholds, lines 1931-1962: every alert goes to every
\* registered callback
RECURSIVE AlertOps(_, _, _)
AlertOps(cid, alerts, resource_usage) ==
    IF alerts = << >> THEN << >>
    ELSE CallbackOps("alert", _resource_alert_callbacks,
                     << cid, Head(alerts).resource_type,
                        Head(alerts).current_value,
                        Head(alerts).threshold, resource_usage >>)
         \o AlertOps(cid, Tail(alerts), resource_usage)

\* the log entry for an exception of callback op: written by the wrapper,
\* or by the except clause around the call of the wrapper
LoggedError(op, outcome) ==
    [operation |-> IF outcome = "caught" THEN "safe_callback"
                   ELSE "caller",
     kind |-> op.kind, cb |-> op.cb]

\* the check of loop task t runs on, to its end or to a callback that
\* suspends
RECURSIVE RunCheck(_, _)
RunCheck(s, t) ==
    LET l == s.loops[t]
        cid == l.chk.cid
    IN IF l.plan = << >>
       THEN [s EXCEPT !.last.checks =
                          Append(@, [l.chk EXCEPT !.completed = TRUE]),
                      !.loops[t].queue = Tail(@),
                      !.loops[t].chk = NoCheck]
       ELSE LET op == Head(l.plan)
                rest == Tail(l.plan)
            IN CASE op.op = "callback" ->
                    LET outcome == _safe_callback(op.how)
                        called ==
                          [s EXCEPT
                             !.loops[t].plan = rest,
                             !.loops[t].chk.calls =
                                 Append(@, [kind |-> op.kind, cb |-> op.cb,
                                            args |-> op.args]),
                             !.loops[t].chk.errors =
                                 IF outcome \in {"caught", "propagated"}
                                 THEN Append(@, LoggedError(op, outcome))
                                 ELSE @]
                    IN IF outcome = "suspended"
                       THEN [called EXCEPT
                               !.loops[t].pc = "in_callback",
                               !.last.checks =
                                   Append(@, called.loops[t].chk)]
                       ELSE RunCheck(called, t)
                 [] op.op = "store" ->
                    RunCheck([s EXCEPT
                                !.states[cid] = l.chk.current_state,
                                !.loops[t].plan = rest,
                                !.loops[t].chk.stored = TRUE], t)
                 [] op.op = "resource" ->
                    LET resource_usage ==
                          _get_resource_usage(s.docker[cid].stats, now)
                    IN IF \/ ~_resource_monitoring_enabled
                          \/ l.chk.current_state # "running"
                          \/ resource_usage = NoUsage
                       THEN RunCheck([s EXCEPT !.loops[t].plan = rest], t)
                       ELSE LET history == _check_resource_usage(
                                             s.rhist[cid], resource_usage)
                                stored == history[Len(history)]
                                alerts == _check_resource_thresholds(
                                             stored, _resource_thresholds)
                            IN RunCheck([s EXCEPT
                                           !.rhist[cid] = history,
                                           !.added[cid] = Append(@, stored),
                                           !.loops[t].plan =
                                               AlertOps(cid, alerts, stored)
                                                 \o rest],
                                        t)

\* lines 1027-1031: the containers listed are checked one after another,
\* then the loop sleeps; the task runs until it suspends
RECURSIVE RunTick(_, _)
RunTick(s, t) ==
    IF s.loops[t].pc # "checking" THEN s
    ELSE IF s.loops[t].queue = << >>
    THEN [s EXCEPT !.loops[t].pc = "sleep",
                   !.loops[t].wake = now + MonitorInterval]
    ELSE RunTick(RunCheck(_check_container_status(
                             s, t, Head(s.loops[t].queue)), t), t)

\* docker_client.containers.list(all=True)
Listed == SelectSeq([i \in 1..Cardinality(Containers) |-> i],
                    LAMBDA c : m_docker[c] # Absent)

\* the orders in which the runtime can list the containers it has
Listings ==
    {q \in [1..Len(Listed) -> Containers] :
        \A i \in 1..Len(Listed) : \E j \in 1..Len(Listed) : q[j] = Listed[i]}

\* ends the loop at the first error
LoopError_ending(s, t) ==
    [s EXCEPT !.loops[t] = [FreshLoop EXCEPT !.pc = "done"]]

\* lines 1032-1034: the error is logged and the loop sleeps 10 seconds
LoopError(s, t) ==
    [s EXCEPT !.loops[t].pc = "err_sleep",
              !.loops[t].wake = now + MonitorBackoff]

\* _monitoring_loop from its start or from a sleep that is over: the while
\* test, the listing (order is the list the runtime returns), the checks
MonRun(t, outcome, order) ==
    /\ loops[t].pc \in {"new", "sleep", "err_sleep"}
    /\ ~loops[t].must_cancel
    /\ now >= loops[t].wake
    /\ outcome = "list_fails" =>
          _monitoring_active /\ mon_budget.list_errors > 0
    /\ LET s == [MonState EXCEPT
                   !.last = [op |-> "run", t |-> t, checks |-> << >>]]
       IN MonCommit(
            IF ~s.active
            THEN [s EXCEPT !.loops[t] = [FreshLoop EXCEPT !.pc = "done"]]
            ELSE IF outcome = "list_fails"
            THEN LoopError(s, t)
            ELSE RunTick([s EXCEPT !.loops[t].pc = "checking",
                                   !.loops[t].queue = order], t))
    /\ mon_budget' = IF outcome = "list_fails"
                     THEN [mon_budget EXCEPT !.list_errors = @ - 1]
                     ELSE mon_budget
    /\ MonFixed
    /\ UNCHANGED << now, m_vars, s_vars, u_vars, h_vars, m_docker >>

\* the callback the check was waiting for completes; the check and the
\* tick run on
MonResume(t) ==
    /\ loops[t].pc = "in_callback"
    /\ ~loops[t].must_cancel
    /\ MonCommit(RunTick(RunCheck(
          [MonState EXCEPT !.loops[t].pc = "checking",
                           !.loops[t].chk.stored = FALSE,
                           !.last = [op |-> "run", t |-> t,
                                     checks |-> << >>]], t), t))
    /\ MonFixed
    /\ UNCHANGED << now, m_vars, s_vars, u_vars, h_vars, m_docker, mon_budget >>

\* the cancellation reaches the loop task where it is suspended
MonCancelled(t) ==
    /\ loops[t].pc \in {"new", "sleep", "err_sleep", "in_callback"}
    /\ loops[t].must_cancel
    /\ MonCommit([MonState EXCEPT
                    !.loops[t] = [FreshLoop EXCEPT !.pc = "cancelled"],
                    !.last = [op |-> "cancelled", t |-> t]])
    /\ MonFixed
    /\ UNCHANGED << now, m_vars, s_vars, u_vars, h_vars, m_docker, mon_budget >>

CallStartMonitoring ==
    /\ mon_budget.calls > 0
    /\ \E t \in LoopIds : loops[t].pc = "unborn"
    /\ MonCommit([start_monitoring(MonState) EXCEPT
                    !.last = [op |-> "start_monitoring",
                              was_active |-> _monitoring_active]])
    /\ mon_budget' = [mon_budget EXCEPT !.calls = @ - 1]
    /\ MonFixed
    /\ UNCHANGED << now, m_vars, s_vars, u_vars, h_vars, m_docker >>

CallStopMonitoring ==
    /\ mon_budget.calls > 0
    /\ MonCommit([stop_monitoring(MonState) EXCEPT
                    !.last = [op |-> "stop_monitoring",
                              was_active |-> _monitoring_active,
                              returned |->
                                  stop_monitoring(MonState).stops = stops,
                              alive |-> {t \in LoopIds :
                                           ~LoopFinished(loops[t])}]])
    /\ mon_budget' = [mon_budget EXCEPT !.calls = @ - 1]
    /\ MonFixed
    /\ UNCHANGED << now, m_vars, s_vars, u_vars, h_vars, m_docker >>

\* stop_monitoring after its await, line 1012
StopResume(t) ==
    /\ t \in stops
    /\ LoopFinished(loops[t])
    /\ MonCommit([MonState EXCEPT
                    !.task = NoLoop, !.stops = @ \ {t},
                    !.last = [op |-> "stop_monitoring_returns", t |-> t]])
    /\ MonFixed
    /\ UNCHANGED << now, m_vars, s_vars, u_vars, h_vars, m_docker, mon_budget >>

\* loop task t, or the stop_monitoring call that awaits it, can run now
Ready(t) ==
    \/ loops[t].pc \in {"new", "in_callback"}
    \/ loops[t].pc \in {"sleep", "err_sleep"}
          /\ (loops[t].must_cancel \/ loops[t].wake <= now)
    \/ t \in stops /\ LoopFinished(loops[t])

\* the runtime: a container starts, exits, is removed, ...
RuntimeChange(c, report) ==
    /\ mon_budget.runtime > 0
    /\ m_docker[c] # report
    /\ m_docker' = [m_docker EXCEPT ![c] = report]
    /\ mon_budget' = [mon_budget EXCEPT !.runtime = @ - 1]
    /\ mon_last' = [op |-> "runtime"]
    /\ MonFixed
    /\ UNCHANGED << now, m_vars, s_vars, u_vars, h_vars, _container_states,
                    _resource_usage_history, mon_added, _monitoring_active,
                    _monitoring_task, loops, stops >>

\* the clock moves on when no task is ready to run
MonTime ==
    /\ \A t \in LoopIds : ~Ready(t)
    /\ now < MaxMonClock
    /\ now' = now + MonitorInterval
    /\ mon_last' = [op |-> "clock"]
    /\ MonFixed
    /\ UNCHANGED << m_vars, s_vars, u_vars, h_vars, m_docker, _container_states,
                    _resource_usage_history, mon_added, _monitoring_active,
                    _monitoring_task, loops, stops, mon_budget >>

\* what the callers and the runtime may do in one run: a few calls while
\* the runtime changes and fails, or more calls against a steady runtime
MonitorBudgets ==
    { [calls |-> MaxMonCalls, runtime |-> MaxRuntimeChanges,
       list_errors |-> MaxListErrors, same_time |-> 0, checks |-> 0],
      [calls |-> MaxRaceCalls, runtime |-> 0,
       list_errors |-> 0, same_time |-> 0, checks |-> 0] }

\* the manager after construction and registration of the callbacks; one
\* container runs
InitMonitor ==
    /\ now = 0
    /\ MIdle
    /\ SIdle
    /\ UIdle
    /\ HIdle
    /\ m_docker = [c \in Containers |->
                     IF c = 1 THEN Reported("running", 0, "none", "calm")
                     ELSE Absent]
    /\ _container_states = [c \in Containers |-> "none"]
    /\ _resource_usage_history = [c \in Containers |-> << >>]
    /\ _resource_thresholds = DefaultThresholds
    /\ _resource_monitoring_enabled = TRUE
    /\ \E setup \in CallbackSetups \ {NoCallbacks} :
          /\ _status_change_callbacks = setup.status
          /\ _health_check_callbacks = setup.health
          /\ _crash_callbacks = setup.crash
          /\ _resource_alert_callbacks = setup.alert
    /\ _monitoring_active = FALSE
    /\ _monitoring_task = NoLoop
    /\ loops = [t \in LoopIds |-> UnbornLoop]
    /\ stops = {}
    /\ mon_last = [op |-> "init"]
    /\ mon_added = [c \in Containers |-> << >>]
    /\ mon_budget \in MonitorBudgets

\* what the runtime comes to report while the loop runs
MonitorReports ==
    { Reported("running", 0, "unhealthy", "busy"),
      Reported("exited", 1, "none", "fails"),
      Absent }

NextMonitor ==
    \/ \E t \in LoopIds, outcome \in {"ok", "list_fails"} :
          MonRun(t, outcome, Listed)
    \/ \E t \in LoopIds : MonResume(t)
    \/ \E t \in LoopIds : MonCancelled(t)
    \/ CallStartMonitoring
    \/ CallStopMonitoring
    \/ \E t \in LoopIds : StopResume(t)
    \/ \E c \in Containers, report \in MonitorReports :
          RuntimeChange(c, report)
    \/ MonTime

SpecMonitor == InitMonitor /\ [][NextMonitor]_vars

(***************************************************************************)
(* SpecTick: the loop polls two containers, one crashed and one unhealthy, *)
(* with callbacks that raise registered for every event                    *)
(***************************************************************************)
TickSetups ==
    { [status |-> << "raises", "sync" >>,
       health |-> << "async_raises", "async" >>,
       crash |-> << "raises", "sync" >>, alert |-> << "sync" >>],
      [status |-> << "async_raises", "async_suspends" >>,
       health |-> << "raises" >>,
       crash |-> << "sync", "async_raises", "sync" >>,
       alert |-> << "raises", "async" >>] }

TickReports ==
    { Reported("running", 0, "unhealthy", "busy"),
      Reported("exited", 1, "none", "fails"),
      Reported("running", 0, "none", "fails"),
      Reported("running", 0, "none", "calm") }

InitTick ==
    /\ now = 0
    /\ MIdle
    /\ SIdle
    /\ UIdle
    /\ HIdle
    /\ m_docker = [c \in Containers |->
                     IF c = 1 THEN Reported("exited", 1, "none", "fails")
                     ELSE Reported("running", 0, "unhealthy", "busy")]
    /\ _container_states = [c \in Containers |-> "none"]
    /\ _resource_usage_history = [c \in Containers |-> << >>]
    /\ _resource_thresholds = DefaultThresholds
    /\ _resource_monitoring_enabled = TRUE
    /\ \E setup \in TickSetups :
          /\ _status_change_callbacks = setup.status
          /\ _health_check_callbacks = setup.health
          /\ _crash_callbacks = setup.crash
          /\ _resource_alert_callbacks = setup.alert
    /\ _monitoring_active = FALSE
    /\ _monitoring_task = NoLoop
    /\ loops = [t \in LoopIds |-> UnbornLoop]
    /\ stops = {}
    /\ mon_last = [op |-> "init"]
    /\ mon_added = [c \in Containers |-> << >>]
    /\ mon_budget = [calls |-> 1, runtime |-> MaxTickChanges,
                     list_errors |-> 0, same_time |-> 0, checks |-> 0]

NextTick ==
    \/ \E t \in LoopIds : MonRun(t, "ok", Listed)
    \/ \E t \in LoopIds : MonResume(t)
    \/ CallStartMonitoring
    \/ \E c \in Containers, report \in TickReports :
          RuntimeChange(c, report)
    \/ MonTime

SpecTick == InitTick /\ [][NextTick]_vars

(***************************************************************************)
(* SpecCheck: _check_container_status awaited for a container object, as   *)
(* the tests of test_container_status_monitoring.py do; the runtime moves  *)
(* container 1 between the calls, container 2 has been removed             *)
(***************************************************************************)
InitCheck ==
    /\ now = 0
    /\ MIdle
    /\ SIdle
    /\ UIdle
    /\ HIdle
    /\ m_docker = [c \in Containers |->
                     IF c = 1 THEN Reported("running", 0, "none", "calm")
                     ELSE Absent]
    /\ _container_states = [c \in Containers |-> "none"]
    /\ _resource_usage_history = [c \in Containers |-> << >>]
    /\ _resource_thresholds = DefaultThresholds
    /\ _resource_monitoring_enabled = TRUE
    /\ \E setup \in CallbackSetups :
          /\ _status_change_callbacks = setup.status
          /\ _health_check_callbacks = setup.health
          /\ _crash_callbacks = setup.crash
          /\ _resource_alert_callbacks = setup.alert
    /\ _monitoring_active = FALSE
    /\ _monitoring_task = NoLoop
    /\ loops = [t \in LoopIds |-> UnbornLoop]
    /\ stops = {}
    /\ mon_last = [op |-> "init"]
    /\ mon_added = [c \in Containers |-> << >>]
    /\ mon_budget = [calls |-> 0, runtime |-> 0, list_errors |-> 0,
                     same_time |-> 0, checks |-> MaxStatusChecks]

\* the caller awaits the check: a callback that suspends completes before
\* anything else runs
RECURSIVE AwaitCheck(_, _)
AwaitCheck(s, t) ==
    LET r == RunCheck(s, t)
    IN IF r.loops[t].pc = "in_callback"
       THEN AwaitCheck([r EXCEPT !.loops[t].pc = "checking"], t)
       ELSE r

CheckStatus(c) ==
    /\ mon_budget.checks > 0
    /\ LET caller == [FreshLoop EXCEPT !.pc = "checking", !.queue = << c >>]
           s == [MonState EXCEPT
                   !.loops[1] = caller,
                   !.last = [op |-> "run", t |-> 1, checks |-> << >>]]
           r == AwaitCheck(_check_container_status(s, 1, c), 1)
       IN MonCommit([r EXCEPT !.loops = loops])
    /\ mon_budget' = [mon_budget EXCEPT !.checks = @ - 1]
    /\ MonFixed
    /\ UNCHANGED << now, m_vars, s_vars, u_vars, h_vars, m_docker >>

CheckRuntime(report) ==
    /\ m_docker[1] # report
    /\ m_docker' = [m_docker EXCEPT ![1] = report]
    /\ mon_last' = [op |-> "runtime"]
    /\ MonFixed
    /\ UNCHANGED << now, m_vars, s_vars, u_vars, h_vars, _container_states,
                    _resource_usage_history, mon_added, _monitoring_active,
                    _monitoring_task, loops, stops, mon_budget >>

NextCheck ==
    \/ \E c \in Containers : CheckStatus(c)
    \/ \E report \in RuntimeReports : CheckRuntime(report)

SpecCheck == InitCheck /\ [][NextCheck]_vars

(***************************************************************************)
(* SpecStatus: get_container_status called between the polls of the        *)
(* monitoring and the state changes of the runtime                         *)
(***************************************************************************)
CallGetContainerStatus(container_id) ==
    /\ mon_last' = [op |-> "get_container_status", cid |-> container_id,
                    result |-> get_container_status(MonState, container_id,
                                                    now)]
    /\ MonFixed
    /\ UNCHANGED << now, m_vars, s_vars, u_vars, h_vars, m_docker,
                    _container_states, _resource_usage_history, mon_added,
                    _monitoring_active, _monitoring_task, loops, stops,
                    mon_budget >>

NextStatus ==
    \/ \E c \in Containers : CheckStatus(c)
    \/ \E report \in RuntimeReports : CheckRuntime(report)
    \/ \E c \in Containers : CallGetContainerStatus(c)

SpecStatus == InitCheck /\ [][NextStatus]_vars

(***************************************************************************)
(* SpecResource: _check_resource_usage awaited again and again for one     *)
(* running container, as test_resource_usage_history_limit does            *)
(***************************************************************************)
InitResource ==
    /\ now = 0
    /\ MIdle
    /\ SIdle
    /\ UIdle
    /\ HIdle
    /\ m_docker = [c \in Containers |->
                     IF c = 1 THEN Reported("running", 0, "none", "calm")
                     ELSE Absent]
    /\ _container_states = [c \in Containers |-> "none"]
    /\ _resource_usage_history = [c \in Containers |-> << >>]
    /\ _resource_monitoring_enabled = TRUE
    /\ _status_change_callbacks = << >>
    /\ _health_check_callbacks = << >>
    /\ _crash_callbacks = << >>
    /\ _resource_thresholds = DefaultThresholds
    /\ _resource_alert_callbacks = << >>
    /\ _monitoring_active = FALSE
    /\ _monitoring_task = NoLoop
    /\ loops = [t \in LoopIds |-> UnbornLoop]
    /\ stops = {}
    /\ mon_last = [op |-> "init"]
    /\ mon_added = [c \in Containers |-> << >>]
    /\ mon_budget = [calls |-> 0, runtime |-> MaxStatsChanges,
                     list_errors |-> 0, same_time |-> MaxSameTime,
                     checks |-> MaxChecks]

\* the caller awaits every callback of the plan through _safe_callback
AwaitCallbacks(ops) ==
    [i \in 1..Len(ops) |->
       [kind |-> ops[i].kind, cb |-> ops[i].cb, how |-> ops[i].how,
        args |-> ops[i].args]]

\* dt seconds after the previous call, _check_resource_usage is awaited
\* for container 1; the alert callbacks complete before it returns
RCheck(dt) ==
    /\ Len(mon_added[1]) < mon_budget.checks
    /\ now < mon_budget.checks
    /\ dt = 0 => mon_budget.same_time > 0
    /\ now' = now + dt
    /\ LET resource_usage == _get_resource_usage(m_docker[1].stats, now')
           history == _check_resource_usage(_resource_usage_history[1],
                                            resource_usage)
           stored == history[Len(history)]
           alerts == _check_resource_thresholds(stored, _resource_thresholds)
       IN IF resource_usage = NoUsage
          THEN /\ mon_last' = [op |-> "resource", stored |-> FALSE]
               /\ UNCHANGED << _resource_usage_history, mon_added >>
          ELSE /\ _resource_usage_history' =
                     [_resource_usage_history EXCEPT ![1] = history]
               /\ mon_added' = [mon_added EXCEPT ![1] = Append(@, stored)]
               /\ mon_last' = [op |-> "resource", stored |-> TRUE,
                               alerts |-> alerts,
                               notified |-> Len(alerts)
                                   * Len(_resource_alert_callbacks),
                               calls |->
                                   AwaitCallbacks(AlertOps(1, alerts, stored))]
    /\ mon_budget' = IF dt = 0
                     THEN [mon_budget EXCEPT !.same_time = @ - 1]
                     ELSE mon_budget
    /\ MonFixed
    /\ UNCHANGED << m_vars, s_vars, u_vars, h_vars, m_docker, _container_states,
                    _monitoring_active, _monitoring_task, loops, stops >>

\* the runtime reports other numbers from now on, or fails to report
RStats(stats_name) ==
    /\ mon_budget.runtime > 0
    /\ m_docker[1].stats # stats_name
    /\ m_docker' = [m_docker EXCEPT ![1].stats = stats_name]
    /\ mon_budget' = [mon_budget EXCEPT !.runtime = @ - 1]
    /\ mon_last' = [op |-> "runtime"]
    /\ MonFixed
    /\ UNCHANGED << now, m_vars, s_vars, u_vars, h_vars, _container_states,
                    _resource_usage_history, mon_added, _monitoring_active,
                    _monitoring_task, loops, stops >>

NextResource ==
    \/ \E dt \in {0, 1} : RCheck(dt)
    \/ \E stats_name \in StatsNames : RStats(stats_name)

SpecResource == InitResource /\ [][NextResource]_vars

(***************************************************************************)
(* SpecAlert: a few awaited _check_resource_usage calls with alert         *)
(* callbacks registered and a threshold lowered, as                        *)
(* test_resource_usage_monitoring.py does                                  *)
(***************************************************************************)
\* set_resource_thresholds({"cpu_percent": 10.0}), as test_cpu_threshold_alert
AlertThresholds == [DefaultThresholds EXCEPT !.cpu_percent = 10]

ResourceSetups ==
    { [thresholds |-> DefaultThresholds, alert |-> << "sync" >>],
      [thresholds |-> AlertThresholds, alert |-> << "raises", "async" >>] }

InitAlert ==
    /\ now = 0
    /\ MIdle
    /\ SIdle
    /\ UIdle
    /\ HIdle
    /\ m_docker = [c \in Containers |->
                     IF c = 1 THEN Reported("running", 0, "none", "calm")
                     ELSE Absent]
    /\ _container_states = [c \in Containers |-> "none"]
    /\ _resource_usage_history = [c \in Containers |-> << >>]
    /\ \E setup \in ResourceSetups :
          /\ _resource_thresholds = setup.thresholds
          /\ _resource_alert_callbacks = setup.alert
    /\ _resource_monitoring_enabled = TRUE
    /\ _status_change_callbacks = << >>
    /\ _health_check_callbacks = << >>
    /\ _crash_callbacks = << >>
    /\ _monitoring_active = FALSE
    /\ _monitoring_task = NoLoop
    /\ loops = [t \in LoopIds |-> UnbornLoop]
    /\ stops = {}
    /\ mon_last = [op |-> "init"]
    /\ mon_added = [c \in Containers |-> << >>]
    /\ mon_budget = [calls |-> 0, runtime |-> MaxAlertStats,
                     list_errors |-> 0, same_time |-> MaxSameTime,
                     checks |-> MaxAlertChecks]

NextAlert ==
    \/ \E dt \in {0, 1} : RCheck(dt)
    \/ \E stats_name \in StatsNames : RStats(stats_name)

SpecAlert == InitAlert /\ [][NextAlert]_vars

(***************************************************************************)
(* SpecModels: one HealthStatusHistory driven by its methods               *)
(***************************************************************************)
ModelConfigs ==
    { HealthCheckConfig(TRUE, a, r, m, c) :
        a \in BOOLEAN, r \in RecoveryActions,
        m \in 0..MaxAttemptsCfg, c \in Cooldowns }

NotCalled == [called |-> FALSE, value |-> FALSE]

InitModels ==
    /\ m_cfg \in ModelConfigs
    /\ m_hist = HealthStatusHistory
    /\ now = 0
    /\ m_ret = NotCalled
    /\ m_added = << >>
    /\ m_pat = "free"
    /\ HIdle
    /\ SIdle
    /\ UIdle
    /\ MonIdle

MTick ==
    /\ now < MaxTime
    /\ now' = now + 1
    /\ m_ret' = NotCalled
    /\ UNCHANGED << m_cfg, m_hist, m_added, m_pat, h_vars, s_vars, u_vars, mon_vars >>

MAddResult ==
    /\ Len(m_added) < MaxResults
    /\ \E ok \in BOOLEAN :
         LET r == HealthCheckResult(now, ok)
         IN /\ m_hist' = add_result(m_hist, r, DefaultMaxHistory)
            /\ m_added' = Append(m_added, r)
    /\ m_ret' = NotCalled
    /\ UNCHANGED << now, m_cfg, m_pat, h_vars, s_vars, u_vars, mon_vars >>

MShouldRecover ==
    /\ m_ret' = [called |-> TRUE,
                 value |-> should_recover(m_hist, m_cfg, now)]
    /\ UNCHANGED << now, m_cfg, m_hist, m_added, m_pat, h_vars, s_vars, u_vars, mon_vars >>

MRecordRecoveryAttempt ==
    /\ m_hist.recovery_attempts < MaxRecords
    /\ m_hist' = record_recovery_attempt(m_hist, now)
    /\ m_ret' = NotCalled
    /\ UNCHANGED << now, m_cfg, m_added, m_pat, h_vars, s_vars, u_vars, mon_vars >>

NextModels ==
    \/ MTick
    \/ MAddResult
    \/ MShouldRecover
    \/ MRecordRecoveryAttempt

SpecModels == InitModels /\ [][NextModels]_vars

(***************************************************************************)
(* SpecAddResult: long runs of add_result with the default max_history.    *)
(* The probe outcomes follow a pattern drawn at the start; the n-th probe  *)
(* is stamped with second n.                                               *)
(***************************************************************************)
Patterns == {"healthy", "failing", "alternating", "third", "streaks"}

PatternSuccess(p, n) ==
    CASE p = "healthy" -> TRUE
      [] p = "failing" -> FALSE
      [] p = "alternating" -> n % 2 = 0
      [] p = "streaks" -> n % 3 = 0
      [] OTHER -> n % 3 # 0

InitAddResult ==
    /\ m_cfg = HealthCheckConfig(TRUE, TRUE, "restart", 0, 0)
    /\ m_hist = HealthStatusHistory
    /\ now = 0
    /\ m_ret = NotCalled
    /\ m_added = << >>
    /\ m_pat \in Patterns
    /\ HIdle
    /\ SIdle
    /\ UIdle
    /\ MonIdle

ARAddResult ==
    /\ Len(m_added) < MaxAdds
    /\ LET r == HealthCheckResult(now, PatternSuccess(m_pat, now))
       IN /\ m_hist' = add_result(m_hist, r, DefaultMaxHistory)
          /\ m_added' = Append(m_added, r)
    /\ now' = now + 1
    /\ UNCHANGED << m_cfg, m_ret, m_pat, h_vars, s_vars, u_vars, mon_vars >>

NextAddResult == ARAddResult

SpecAddResult == InitAddResult /\ [][NextAddResult]_vars

(***************************************************************************)
(* SpecSocket: the calls of a SocketCommunicationHandler and the peers     *)
(* that connect to its sockets.                                            *)
(***************************************************************************)
Timeouts == {1, 30}

SmallMessage == JDict(<< << << "k" >>, JInt(1) >> >>)

LongMessage ==
    JDict(<< << << "k" >>, JList(<< JStr(<< "a" >>), JStr(<< "a" >>) >>) >>,
             << << "U+00E9" >>, JNull >> >>)

SocketMessages == {SmallMessage, LongMessage}

MalformedWires ==
    { [head |-> << 0, 0 >>, body |-> << >>],
      [head |-> ToBytes4(0), body |-> << >>],
      [head |-> ToBytes4(5), body |-> << "{", "}" >>],
      [head |-> ToBytes4(2), body |-> << "{", "x" >>] }

Peer(reads, closes, out) ==
    [conn |-> "pending", reads |-> reads, closes |-> closes, out |-> out]

EchoPeer(container_id) == Peer(TRUE, TRUE, delivered[container_id])

PeerScripts(container_id) ==
    {Peer(TRUE, FALSE, EmptyWire), Peer(FALSE, FALSE, EmptyWire),
     Peer(FALSE, TRUE, EmptyWire)}
       \cup {Peer(TRUE, TRUE, w) : w \in MalformedWires}
       \cup {Peer(TRUE, TRUE, Frame(m)) : m \in s_msgs}
       \cup (IF delivered[container_id] = EmptyWire THEN {}
             ELSE {EchoPeer(container_id)})

CallSetupSocket(container_id, outcome) ==
    /\ s_budget.setup > 0
    /\ outcome # "ok" => s_budget.faults > 0
    /\ LET r == setup_socket(SockState, container_id, outcome)
       IN /\ SockCommit(r.s)
          /\ s_last' = [op |-> "setup_socket", cid |-> container_id,
                        kind |-> r.kind, n |-> s_last.n + 1,
                        accepted |->
                           IF r.kind = "ok"
                           THEN s_last.accepted \ {container_id}
                           ELSE s_last.accepted]
    /\ s_budget' = [s_budget EXCEPT
                      !.setup = @ - 1,
                      !.faults = IF outcome = "ok" THEN @ ELSE @ - 1]
    /\ UNCHANGED << now, m_vars, u_vars, h_vars, mon_vars, s_msgs >>

CallCleanupSocket(container_id, outcome) ==
    /\ s_budget.cleanup > 0
    /\ outcome # "ok" => s_budget.faults > 0
    /\ outcome = "close_fails" => _connections[container_id] = "listening"
    /\ outcome = "unlink_fails" => container_id \in sock_dir
    /\ LET r == cleanup_socket(SockState, container_id, outcome)
       IN /\ SockCommit(r.s)
          /\ s_last' = [op |-> "cleanup_socket", cid |-> container_id,
                        kind |-> r.kind, outcome |-> outcome,
                        accepted |-> s_last.accepted \ {container_id},
                        n |-> s_last.n + 1]
    /\ s_budget' = [s_budget EXCEPT
                      !.cleanup = @ - 1,
                      !.faults = IF outcome = "ok" THEN @ ELSE @ - 1]
    /\ UNCHANGED << now, m_vars, u_vars, h_vars, mon_vars, s_msgs >>

CallSendMessage(container_id, message, k) ==
    /\ s_budget.send > 0
    /\ k \in SendSizes(Len(json_dumps(message)))
    /\ LET r == send_message(SockState, container_id, message, k)
       IN /\ SockCommit(r.s)
          /\ s_last' = [op |-> "send_message", cid |-> container_id,
                        kind |-> r.kind, message |-> message,
                        written |-> k, timeout |-> NoTime,
                        set_up |-> _connections[container_id] # "none",
                        peer |-> peers[container_id],
                        accepted |->
                           IF Accepts(SockState, container_id)
                           THEN s_last.accepted \cup {container_id}
                           ELSE s_last.accepted,
                        n |-> s_last.n + 1]
    /\ s_budget' = [s_budget EXCEPT !.send = @ - 1]
    /\ UNCHANGED << now, m_vars, u_vars, h_vars, mon_vars, s_msgs >>

\* the sizes the second recv of a receive_message call can return
RecvChoices(container_id) ==
    LET out == peers[container_id].out
    IN IF Accepts(SockState, container_id) /\ Len(out.head) = 4
       THEN RecvSizes(Len(out.body), FromBytes4(out.head))
       ELSE {0}

CallReceiveMessage(container_id, timeout, k) ==
    /\ s_budget.recv > 0
    /\ k \in RecvChoices(container_id)
    /\ LET r == receive_message(SockState, container_id, k)
       IN /\ SockCommit(r.s)
          /\ s_last' = [op |-> "receive_message", cid |-> container_id,
                        kind |-> r.kind, value |-> r.value,
                        timeout |-> timeout,
                        set_up |-> _connections[container_id] # "none",
                        peer |-> peers[container_id],
                        accepted |->
                           IF Accepts(SockState, container_id)
                           THEN s_last.accepted \cup {container_id}
                           ELSE s_last.accepted,
                        n |-> s_last.n + 1]
    /\ s_budget' = [s_budget EXCEPT !.recv = @ - 1]
    /\ UNCHANGED << now, m_vars, u_vars, h_vars, mon_vars, s_msgs >>

\* a peer connects to the socket file of a listening socket
PeerConnects(container_id, p) ==
    /\ s_budget.peer > 0
    /\ _connections[container_id] = "listening"
    /\ container_id \in sock_dir
    /\ peers[container_id].conn = "none"
    /\ peers' = [peers EXCEPT ![container_id] = p]
    /\ s_last' = [op |-> "connect", cid |-> container_id, n |-> s_last.n,
                  accepted |-> s_last.accepted]
    /\ s_budget' = [s_budget EXCEPT !.peer = @ - 1]
    /\ UNCHANGED << now, m_vars, u_vars, h_vars, mon_vars, _connections,
                    _connection_status, sock_dir, delivered, s_msgs >>

InitSocket ==
    /\ now = 0
    /\ MIdle
    /\ HIdle
    /\ MonIdle
    /\ UIdle
    /\ _connections = [i \in SockIds |-> "none"]
    /\ _connection_status = [i \in SockIds |-> "unset"]
    /\ sock_dir = {}
    /\ peers = [i \in SockIds |-> NoPeer]
    /\ delivered = [i \in SockIds |-> EmptyWire]
    /\ s_msgs = SocketMessages
    /\ s_last = [op |-> "init", n |-> 0, accepted |-> {}]
    /\ s_budget = [setup |-> MaxSetups, cleanup |-> MaxCleanups,
                   send |-> MaxSends, recv |-> MaxReceives,
                   peer |-> MaxPeers, faults |-> MaxSocketFaults]

NextSocket ==
    \/ \E i \in SockIds, outcome \in SetupOutcomes :
          CallSetupSocket(i, outcome)
    \/ \E i \in SockIds, outcome \in CleanupOutcomes :
          CallCleanupSocket(i, outcome)
    \/ \E i \in SockIds, m \in s_msgs :
          \E k \in SendSizes(Len(json_dumps(m))) : CallSendMessage(i, m, k)
    \/ \E i \in SockIds, timeout \in Timeouts :
          \E k \in RecvChoices(i) : CallReceiveMessage(i, timeout, k)
    \/ \E i \in SockIds : \E p \in PeerScripts(i) : PeerConnects(i, p)

SpecSocket == InitSocket /\ [][NextSocket]_vars

(***************************************************************************)
(* SpecFrame: one message is sent to a reading peer, which sends the      *)
(* frame it read back on a new connection, where it is received.           *)
(***************************************************************************)
JsonKeys == { << "k" >>, << "U+00E9", "\"" >> }

JsonLeaves == {JNull, JInt(1), JStr(<< "a" >>)}

JsonAtoms ==
    {JNull, JBool(TRUE), JBool(FALSE), JInt(0), JInt(42), JInt(0 - 7),
     JStr(<< >>), JStr(<< "a", "\"" >>), JStr(<< "U+00E9" >>),
     JStr(<< "\\" >>)}

JsonInner ==
    JsonAtoms
       \cup {JList(<< >>), JDict(<< >>)}
       \cup {JList(<< x >>) : x \in JsonLeaves}
       \cup {JList(<< x, y >>) : x \in JsonLeaves, y \in JsonLeaves}
       \cup {JDict(<< << k, x >> >>) : k \in JsonKeys, x \in JsonLeaves}

JsonObjects ==
    {JDict(<< >>)}
       \cup {JDict(<< << k, x >> >>) : k \in JsonKeys, x \in JsonInner}
       \cup UNION {{JDict(<< << k1, x >>, << k2, y >> >>) :
                        k2 \in JsonKeys \ {k1},
                        x \in JsonInner, y \in JsonLeaves} :
                     k1 \in JsonKeys}

InitFrame ==
    /\ now = 0
    /\ MIdle
    /\ HIdle
    /\ MonIdle
    /\ UIdle
    /\ _connections = [i \in SockIds |-> IF i = 1 THEN "listening" ELSE "none"]
    /\ _connection_status = [i \in SockIds |-> IF i = 1 THEN "True" ELSE "unset"]
    /\ sock_dir = {1}
    /\ peers = [i \in SockIds |->
                   IF i = 1 THEN Peer(TRUE, FALSE, EmptyWire) ELSE NoPeer]
    /\ delivered = [i \in SockIds |-> EmptyWire]
    /\ \E m \in JsonObjects : s_msgs = {m}
    /\ s_last = [op |-> "init", n |-> 0, accepted |-> {}]
    /\ s_budget = [setup |-> 0, cleanup |-> 0, send |-> 1, recv |-> 1,
                   peer |-> 1, faults |-> 0]

NextFrame ==
    \/ \E m \in s_msgs : \E k \in SendSizes(Len(json_dumps(m))) :
          CallSendMessage(1, m, k)
    \/ delivered[1] # EmptyWire /\ PeerConnects(1, EchoPeer(1))
    \/ \E timeout \in Timeouts : \E k \in RecvChoices(1) :
          peers[1].out # EmptyWire /\ CallReceiveMessage(1, timeout, k)

SpecFrame == InitFrame /\ [][NextFrame]_vars

(***************************************************************************)
(* SpecUpdate: update_container called for containers with and without a   *)
(* code bind, running and stopped, with every step failing in turn         *)
(***************************************************************************)
UState == [docker |-> u_docker, next_id |-> u_next_id, fs |-> fs]

CallUpdateContainer(container_id, fails, error, rollback_ok) ==
    /\ u_budget > 0
    /\ u_next_id <= MaxUpdateIds
    /\ CanFail(UState, container_id, fails)
    /\ fails # "none" => error \in StepErrors(fails)
    /\ (fails \in {"none", "path", "get"}
          \/ HostCode(fs, fs.binds[container_id]) = "absent") => rollback_ok
    /\ LET r == update_container(UState, container_id, fails, error,
                                 rollback_ok)
       IN /\ u_docker' = r.s.docker
          /\ u_next_id' = r.s.next_id
          /\ fs' = r.s.fs
          /\ u_last' = [op |-> "update_container", cid |-> container_id,
                        step |-> r.step, error |-> r.error,
                        raised |-> r.raised, rollback_ok |-> rollback_ok,
                        before |-> UState,
                        calls |-> RuntimeCalls(UState, container_id, fails)]
    /\ u_budget' = u_budget - 1
    /\ UNCHANGED << now, m_vars, h_vars, mon_vars, s_vars >>

InitUpdate ==
    /\ now = 0
    /\ MIdle
    /\ SIdle
    /\ HIdle
    /\ MonIdle
    /\ u_docker \in {[i \in UpdateIds |-> IF i = 1 THEN st ELSE "absent"] :
                       st \in {"running", "exited"}}
    /\ u_next_id = 2
    /\ fs \in {Dirs("none", "absent", "absent", "none"),
                Dirs("volume", "old", "old", "none"),
                Dirs("elsewhere", "old", "absent", "none"),
                Dirs("elsewhere", "absent", "absent", "none")}
    /\ u_last = [op |-> "init"]
    /\ u_budget = MaxUpdates

NextUpdate ==
    \E container_id \in UpdateIds,
       fails \in {UpdateSteps[i] : i \in 1..Len(UpdateSteps)} \cup {"none"},
       error \in {"APIError", "NotFound", "FileNotFoundError", "OSError"},
       rollback_ok \in BOOLEAN :
         CallUpdateContainer(container_id, fails, error, rollback_ok)

SpecUpdate == InitUpdate /\ [][NextUpdate]_vars

(***************************************************************************)
(* SpecThresholds: the thresholds are set by direct calls of the manager   *)
(* and by set_resource_thresholds events                                   *)
(***************************************************************************)
ThresholdKeys == {"cpu_percent", "memory_percent", "disk_io"}
ThresholdValues == {0 - 1, 0, 90}

\* the dictionaries of at most two items
ThresholdArgs ==
    UNION {[S -> ThresholdValues] :
             S \in {T \in SUBSET ThresholdKeys : Cardinality(T) <= 2}}

ThresholdsUnchanged ==
    UNCHANGED << now, m_vars, s_vars, u_vars, h_vars, m_docker,
                 _container_states, _resource_usage_history,
                 _resource_monitoring_enabled, _status_change_callbacks,
                 _health_check_callbacks, _crash_callbacks,
                 _resource_alert_callbacks, _monitoring_active,
                 _monitoring_task, loops, stops, mon_added, mon_budget >>

CallSetResourceThresholds(thresholds) ==
    /\ LET r == set_resource_thresholds(_resource_thresholds, thresholds)
       IN /\ _resource_thresholds' = r.thresholds
          /\ mon_last' = [op |-> "set_resource_thresholds",
                          thresholds |-> thresholds, failed |-> r.failed]
    /\ ThresholdsUnchanged

HandleSetResourceThresholds(thresholds) ==
    /\ LET r == handle_set_resource_thresholds(_resource_thresholds,
                                               thresholds)
       IN /\ _resource_thresholds' = r.thresholds
          /\ mon_last' = [op |-> "handle_set_resource_thresholds",
                          thresholds |-> thresholds, emitted |-> r.emitted]
    /\ ThresholdsUnchanged

InitThresholds ==
    /\ now = 0
    /\ MIdle
    /\ SIdle
    /\ UIdle
    /\ HIdle
    /\ MonIdle

NextThresholds ==
    \/ \E thresholds \in ThresholdArgs : CallSetResourceThresholds(thresholds)
    \/ \E thresholds \in ThresholdArgs :
          HandleSetResourceThresholds(thresholds)

SpecThresholds == InitThresholds /\ [][NextThresholds]_vars

(***************************************************************************)
(* SpecAttempts: one HealthStatusHistory driven by its methods while the   *)
(* config of its container is set again                                    *)
(***************************************************************************)
AttemptConfigs ==
    { HealthCheckConfig(TRUE, TRUE, "restart", MaxAttemptsCfg, 2),
      HealthCheckConfig(TRUE, TRUE, "recreate", 1, 0),
      HealthCheckConfig(FALSE, FALSE, "none", 0, 0) }

MSetHealthCheckConfig(config) ==
    /\ LET pair == SetConfigOf([config |-> m_cfg, history |-> m_hist], config)
       IN /\ m_cfg' = pair.config
          /\ m_hist' = pair.history
    /\ m_ret' = NotCalled
    /\ UNCHANGED << now, m_added, m_pat, h_vars, s_vars, u_vars, mon_vars >>

InitAttempts ==
    /\ m_cfg \in AttemptConfigs
    /\ m_hist = HealthStatusHistory
    /\ now = 0
    /\ m_ret = NotCalled
    /\ m_added = << >>
    /\ m_pat = "free"
    /\ HIdle
    /\ SIdle
    /\ UIdle
    /\ MonIdle

NextAttempts ==
    \/ MTick
    \/ MAddResult
    \/ MShouldRecover
    \/ MRecordRecoveryAttempt
    \/ \E config \in AttemptConfigs : MSetHealthCheckConfig(config)

SpecAttempts == InitAttempts /\ [][NextAttempts]_vars

(***************************************************************************)
(* The health-check units of one container whose config is set, re-set and *)
(* deleted while the units start, probe and sleep.                         *)
(***************************************************************************)
\* an http probe with a start period, a command probe without one, and the
\* disabled config
UnitConfigs ==
    { [EngineConfig(TRUE, "http", "restart", 2, 7) EXCEPT !.start_period = 5],
      EngineConfig(TRUE, "command", "restart", 1, 0),
      EngineConfig(FALSE, "http", "none", 1, 0) }

\* the ids the runtime has handed out: callers pass no other
Created == {i \in Ids : docker[i] # "absent"}

InitUnits ==
    /\ now = 0
    /\ MIdle
    /\ SIdle
    /\ UIdle
    /\ MonIdle
    /\ docker = [i \in Ids |-> IF i = 1 THEN "running" ELSE "absent"]
    /\ next_id = 2
    /\ socket_files = {1}
    /\ _health_check_configs = [i \in Ids |-> NoConfig]
    /\ _health_status_history = [i \in Ids |-> NoHistory]
    /\ _health_check_tasks = [i \in Ids |-> NoTask]
    /\ tasks = [t \in TaskIds |-> FreshTask]
    /\ h_log = [i \in Ids |-> << >>]
    /\ h_probes = 0
    /\ h_stale = FALSE
    /\ h_last = OtherOp
    /\ h_budget = [set_config |-> MaxUnitSets, api_errors |-> 0,
                   runtime_removes |-> 0]

NextUnits ==
    \/ \E t \in TaskIds : UnitStart(t)
    \/ \E t \in TaskIds : UnitCancelled(t)
    \/ \E t \in TaskIds : UnitWake(t)
    \/ \E t \in TaskIds : UnitProbeDone(t)
    \/ \E cid \in Created, kwargs \in UnitConfigs :
          CallSetHealthCheckConfig(cid, kwargs)
    \/ \E cid \in Created, outcome \in DeleteOutcomes :
          CallDeleteContainer(cid, outcome)
    \/ HTick

SpecUnits == InitUnits /\ [][NextUnits]_vars

(***************************************************************************)
(* The iterations of one health-check unit with failure callbacks          *)
(* registered: probe, history, recovery, callbacks, sleep.                 *)
(***************************************************************************)
\* register_health_check_callback: callbacks that return, raise or await
IterationCallbacks ==
    { << "sync", "async" >>,
      << "async_suspends", "raises" >>,
      << "async_raises", "async_suspends", "sync" >> }

\* retries is 3 unless the caller passes another value
IterationConfigs ==
    { EngineConfig(TRUE, "http", "restart", 2, 7),
      [EngineConfig(TRUE, "http", "restart", 2, 7) EXCEPT !.retries = 5],
      EngineConfig(TRUE, "command", "restart", 1, 0),
      [EngineConfig(TRUE, "command", "restart", 1, 0) EXCEPT !.retries = 1],
      EngineConfig(TRUE, "command", "recreate", 2, 10) }

InitIteration ==
    /\ now = 0
    /\ MIdle
    /\ SIdle
    /\ UIdle
    /\ m_docker = [c \in Containers |-> Absent]
    /\ _container_states = [c \in Containers |-> "none"]
    /\ _resource_usage_history = [c \in Containers |-> << >>]
    /\ _resource_thresholds = DefaultThresholds
    /\ _resource_monitoring_enabled = TRUE
    /\ _status_change_callbacks = << >>
    /\ _health_check_callbacks \in IterationCallbacks
    /\ _crash_callbacks = << >>
    /\ _resource_alert_callbacks = << >>
    /\ _monitoring_active = FALSE
    /\ _monitoring_task = NoLoop
    /\ loops = [t \in LoopIds |-> UnbornLoop]
    /\ stops = {}
    /\ mon_last = [op |-> "init"]
    /\ mon_added = [c \in Containers |-> << >>]
    /\ mon_budget = [calls |-> 0, runtime |-> 0, list_errors |-> 0,
                     same_time |-> 0, checks |-> 0]
    /\ docker = [i \in Ids |-> IF i = 1 THEN "running" ELSE "absent"]
    /\ next_id = 2
    /\ socket_files = {1}
    /\ _health_check_configs = [i \in Ids |-> NoConfig]
    /\ _health_status_history = [i \in Ids |-> NoHistory]
    /\ _health_check_tasks = [i \in Ids |-> NoTask]
    /\ tasks = [t \in TaskIds |-> FreshTask]
    /\ h_log = [i \in Ids |-> << >>]
    /\ h_probes = 0
    /\ h_stale = FALSE
    /\ h_last = OtherOp
    /\ h_budget = [set_config |-> MaxSetConfig, api_errors |-> 0,
                   runtime_removes |-> 0]

NextIteration ==
    \/ \E t \in TaskIds : UnitStart(t)
    \/ \E t \in TaskIds : UnitCancelled(t)
    \/ \E t \in TaskIds : UnitWake(t)
    \/ \E t \in TaskIds : UnitProbeDone(t)
    \/ \E t \in TaskIds : UnitCallbackDone(t)
    \/ \E cid \in Ids, kwargs \in IterationConfigs :
          CallSetHealthCheckConfig(cid, kwargs)
    \/ HTick

SpecIteration == InitIteration /\ [][NextIteration]_vars

(***************************************************************************)
(* update_container on a manager whose containers have health checks       *)
(* configured and units running.                                           *)
(***************************************************************************)
ManagerUpdatesContainer(container_id, fails, error, rollback_ok) ==
    /\ u_budget > 0
    /\ next_id <= MaxIds
    /\ LET s == [docker |-> docker, next_id |-> next_id, fs |-> fs]
       IN /\ CanFail(s, container_id, fails)
          /\ fails # "none" => error \in StepErrors(fails)
          /\ (fails \in {"none", "path", "get"}
                \/ HostCode(fs, fs.binds[container_id]) = "absent")
                   => rollback_ok
          /\ LET r == update_container(s, container_id, fails, error,
                                       rollback_ok)
             IN /\ docker' = r.s.docker
                /\ next_id' = r.s.next_id
                /\ fs' = r.s.fs
                /\ h_last' = [op |-> "update_container",
                              cid |-> container_id, new |-> next_id,
                              step |-> r.step,
                              before |-> [configs |-> _health_check_configs,
                                          history |-> _health_status_history,
                                          htasks |-> _health_check_tasks,
                                          tasks |-> tasks]]
    /\ u_budget' = u_budget - 1
    /\ UNCHANGED << now, m_vars, s_vars, mon_vars, u_docker, u_next_id,
                    u_last, socket_files, _health_check_configs,
                    _health_status_history, _health_check_tasks, tasks,
                    h_log, h_probes, h_stale, h_budget >>

\* one running container
InitManagedUpdate ==
    /\ now = 0
    /\ MIdle
    /\ SIdle
    /\ MonIdle
    /\ u_docker = [i \in UpdateIds |-> "absent"]
    /\ u_next_id = 1
    /\ fs = Dirs("none", "absent", "absent", "none")
    /\ u_last = [op |-> "init"]
    /\ u_budget = MaxManagedUpdates
    /\ docker = [i \in Ids |-> IF i = 1 THEN "running" ELSE "absent"]
    /\ next_id = 2
    /\ socket_files = {1}
    /\ _health_check_configs = [i \in Ids |-> NoConfig]
    /\ _health_status_history = [i \in Ids |-> NoHistory]
    /\ _health_check_tasks = [i \in Ids |-> NoTask]
    /\ tasks = [t \in TaskIds |-> FreshTask]
    /\ h_log = [i \in Ids |-> << >>]
    /\ h_probes = 0
    /\ h_stale = FALSE
    /\ h_last = OtherOp
    /\ h_budget = [set_config |-> MaxSetConfig, api_errors |-> 0,
                   runtime_removes |-> 0]

NextManagedUpdate ==
    \/ \E t \in TaskIds : UnitStart(t)
    \/ \E t \in TaskIds : UnitCancelled(t)
    \/ \E t \in TaskIds : UnitWake(t)
    \/ \E t \in TaskIds : UnitProbeDone(t)
    \/ \E cid \in Created, kwargs \in {c \in UnitConfigs : c.enabled} :
          CallSetHealthCheckConfig(cid, kwargs)
    \/ \E cid \in Created : CallDeleteContainer(cid, "ok")
    \/ \E container_id \in Created,
          fails \in {"none", "remove", "create", "start"} :
            ManagerUpdatesContainer(container_id, fails, "APIError", TRUE)
    \/ HTick

SpecManagedUpdate == InitManagedUpdate /\ [][NextManagedUpdate]_vars

(***************************************************************************)
(* The monitoring loop started and stopped against a runtime whose         *)
(* listing can fail.                                                       *)
(***************************************************************************)
InitBackoff ==
    /\ now = 0
    /\ MIdle
    /\ SIdle
    /\ UIdle
    /\ HIdle
    /\ m_docker = [c \in Containers |->
                     IF c = 1 THEN Reported("running", 0, "none", "calm")
                     ELSE Absent]
    /\ _container_states = [c \in Containers |-> "none"]
    /\ _resource_usage_history = [c \in Containers |-> << >>]
    /\ _resource_thresholds = DefaultThresholds
    /\ _resource_monitoring_enabled = TRUE
    /\ \E setup \in CallbackSetups \ {NoCallbacks} :
          /\ _status_change_callbacks = setup.status
          /\ _health_check_callbacks = setup.health
          /\ _crash_callbacks = setup.crash
          /\ _resource_alert_callbacks = setup.alert
    /\ _monitoring_active = FALSE
    /\ _monitoring_task = NoLoop
    /\ loops = [t \in LoopIds |-> UnbornLoop]
    /\ stops = {}
    /\ mon_last = [op |-> "init"]
    /\ mon_added = [c \in Containers |-> << >>]
    /\ mon_budget = [calls |-> MaxMonCalls, runtime |-> 0,
                     list_errors |-> MaxListErrors, same_time |-> 0,
                     checks |-> 0]

NextBackoff ==
    \/ \E t \in LoopIds, outcome \in {"ok", "list_fails"} :
          MonRun(t, outcome, Listed)
    \/ \E t \in LoopIds : MonCancelled(t)
    \/ CallStartMonitoring
    \/ CallStopMonitoring
    \/ \E t \in LoopIds : StopResume(t)
    \/ MonTime

SpecBackoff == InitBackoff /\ [][NextBackoff]_vars

(***************************************************************************)
(* SpecMaps: the manager of SpecHealth with callers that set the four     *)
(* engine configs, delete containers and call cleanup_all_health_checks   *)
(* at any time between the steps of the units.                             *)
(***************************************************************************)
NextMaps ==
    \/ \E t \in TaskIds : UnitStart(t)
    \/ \E t \in TaskIds : UnitCancelled(t)
    \/ \E t \in TaskIds : UnitWake(t)
    \/ \E t \in TaskIds : UnitProbeDone(t)
    \/ \E cid \in Ids, kwargs \in EngineConfigs :
          CallSetHealthCheckConfig(cid, kwargs)
    \/ \E cid \in Ids, outcome \in DeleteOutcomes :
          CallDeleteContainer(cid, outcome)
    \/ \E cid \in Ids : RuntimeRemoves(cid)
    \/ CallCleanupAllHealthChecks
    \/ HTick

SpecMaps == InitHealth /\ [][NextMaps]_vars

(***************************************************************************)
(* SpecOrder: the loop of SpecTick over a runtime that lists its           *)
(* containers in any order                                                 *)
(***************************************************************************)
NextOrder ==
    \/ \E t \in LoopIds : \E order \in Listings : MonRun(t, "ok", order)
    \/ \E t \in LoopIds : MonResume(t)
    \/ CallStartMonitoring
    \/ \E c \in Containers, report \in TickReports :
          RuntimeChange(c, report)
    \/ MonTime

SpecOrder == InitTick /\ [][NextOrder]_vars

(***************************************************************************)
(* C1: should_recover(config), evaluated at time now, returns true iff     *)
(* auto_recovery is set, recovery_action is not "none", recovery_attempts  *)
(* is below max_recovery_attempts, last_recovery_attempt is unset or at    *)
(* least recovery_cooldown seconds old, and current_health is unhealthy.   *)
(***************************************************************************)
C1_Conditions ==
    /\ m_cfg.auto_recovery
    /\ m_cfg.recovery_action # "none"
    /\ m_hist.recovery_attempts < m_cfg.max_recovery_attempts
    /\ \/ m_hist.last_recovery_attempt = NoTime
       \/ now - m_hist.last_recovery_attempt >= m_cfg.recovery_cooldown
    /\ m_hist.current_health = "unhealthy"

C1_ShouldRecoverIff ==
    m_ret.called => (m_ret.value <=> C1_Conditions)

\* should_recover returned true exactly when the cooldown had elapsed
C1_Witness ==
    /\ m_ret.called
    /\ m_ret.value
    /\ m_hist.last_recovery_attempt # NoTime
    /\ m_cfg.recovery_cooldown > 0
    /\ now - m_hist.last_recovery_attempt = m_cfg.recovery_cooldown

(***************************************************************************)
(* C2: the number of recovery actions executed against one health history  *)
(* never exceeds max_recovery_attempts of the config they run under, also  *)
(* when every action raises: the i-th action runs under a config whose cap *)
(* is at least i, and recovery_attempts was already incremented to i when  *)
(* the action started.                                                     *)
(***************************************************************************)
C2_AttemptsCapped ==
    \A cid \in Ids : \A i \in 1..Len(h_log[cid]) :
        /\ i <= h_log[cid][i].max
        /\ h_log[cid][i].attempts = i

\* the cap was reached with failed actions and a later unhealthy probe,
\* after the cooldown, ran no further action
C2_Witness ==
    \E cid \in Ids :
        /\ _health_status_history[cid] # NoHistory
        /\ _health_check_configs[cid] # NoConfig
        /\ Len(h_log[cid]) >= 1
        /\ Len(h_log[cid]) = _health_check_configs[cid].max_recovery_attempts
        /\ \A i \in 1..Len(h_log[cid]) : h_log[cid][i].failed
        /\ _health_status_history[cid].current_health = "unhealthy"
        /\ _health_status_history[cid].last_unhealthy
             > _health_status_history[cid].last_recovery_attempt
        /\ _health_status_history[cid].last_unhealthy
             - _health_status_history[cid].last_recovery_attempt
             >= _health_check_configs[cid].recovery_cooldown

(***************************************************************************)
(* C3: two consecutive recovery attempts on the same health history are    *)
(* at least recovery_cooldown seconds apart, also when the earlier action  *)
(* failed.                                                                 *)
(***************************************************************************)
C3_CooldownRespected ==
    \A cid \in Ids : \A i \in 2..Len(h_log[cid]) :
        h_log[cid][i].t - h_log[cid][i - 1].t >= h_log[cid][i].cooldown

\* a second attempt ran after a failed first one, under a real cooldown
C3_Witness ==
    \E cid \in Ids :
        /\ Len(h_log[cid]) >= 2
        /\ h_log[cid][1].failed
        /\ h_log[cid][2].cooldown > 0

(***************************************************************************)
(* C4: when a recreate recovery has run to its end, the health config and  *)
(* the health history that were stored under the old container id are      *)
(* stored under the id of the replacement container.                       *)
(***************************************************************************)
C4_RecreateMovesHealthState ==
    h_last.op = "recreate" =>
        /\ _health_check_configs[h_last.new] = h_last.config
        /\ _health_status_history[h_last.new] # NoHistory

(***************************************************************************)
(* C5: when delete_container(id) has returned successfully there is no     *)
(* health-check task, config or history for id and every unit of id has    *)
(* been cancelled; no probe ever completes for a deleted container.        *)
(***************************************************************************)
C5_DeleteDropsHealthCheck ==
    /\ ~h_stale
    /\ (h_last.op = "delete_container" /\ ~h_last.raised) =>
          /\ _health_check_tasks[h_last.cid] = NoTask
          /\ _health_check_configs[h_last.cid] = NoConfig
          /\ _health_status_history[h_last.cid] = NoHistory
          /\ \A t \in TaskIds :
                tasks[t].cid = h_last.cid => tasks[t].must_cancel

\* the delete cancelled a unit whose probe was in flight
C5_Witness ==
    /\ h_last.op = "delete_container"
    /\ ~h_last.raised
    /\ docker[h_last.cid] = "removed"
    /\ \E t \in TaskIds :
          /\ tasks[t].cid = h_last.cid
          /\ tasks[t].pc = "probing"
          /\ tasks[t].must_cancel

(***************************************************************************)
(* C6: a container check that ran to its end has invoked every registered  *)
(* crash callback once, in registration order, with (id, exit_code,        *)
(* details), if the state it read is exited or dead and the exit code is   *)
(* not 0, and has invoked no crash callback otherwise.                     *)
(***************************************************************************)
C6_CrashCalls(chk) ==
    SelectSeq(chk.calls, LAMBDA call : call.kind = "crash")

C6_CrashIffExitedNonZero ==
    mon_last.op = "run" =>
      \A i \in DOMAIN mon_last.checks :
         LET chk == mon_last.checks[i]
         IN chk.completed =>
              IF /\ chk.reloaded
                 /\ chk.current_state \in {"exited", "dead"}
                 /\ chk.attrs.exit_code # 0
              THEN C6_CrashCalls(chk) =
                     [j \in 1..Len(_crash_callbacks) |->
                        [kind |-> "crash", cb |-> j,
                         args |-> << chk.cid, chk.attrs.exit_code,
                                     [exit_code |-> chk.attrs.exit_code] >>]]
              ELSE C6_CrashCalls(chk) = << >>

\* an exited container with exit code 1 was checked; both crash callbacks
\* were invoked although the first one raises
C6_Witness ==
    /\ mon_last.op = "run"
    /\ Len(_crash_callbacks) = 2
    /\ _crash_callbacks[1] = "raises"
    /\ \E i \in DOMAIN mon_last.checks :
          /\ mon_last.checks[i].completed
          /\ mon_last.checks[i].reloaded
          /\ mon_last.checks[i].current_state = "exited"
          /\ mon_last.checks[i].attrs.exit_code = 1
          /\ Len(C6_CrashCalls(mon_last.checks[i])) = 2

(***************************************************************************)
(* C7: when a container check has compared the state it read with the      *)
(* cache and stored it, the status-change callbacks were invoked with      *)
(* (id, old, new) if and only if a state was cached for the id and the     *)
(* state read differs from it, and the cache holds the state read.  The    *)
(* first check of an id, with nothing cached, invokes no callback.         *)
(***************************************************************************)
C7_StatusCalls(chk) ==
    SelectSeq(chk.calls, LAMBDA call : call.kind = "status")

C7_Notified(chk) ==
    [j \in 1..Len(_status_change_callbacks) |->
       [kind |-> "status", cb |-> j,
        args |-> << chk.cid, chk.previous_state, chk.current_state >>]]

C7_StatusIffChangedFromCached ==
    mon_last.op = "run" =>
      \A i \in DOMAIN mon_last.checks :
         LET chk == mon_last.checks[i]
         IN chk.reloaded /\ chk.stored =>
              /\ C7_StatusCalls(chk) =
                    IF /\ chk.previous_state # "none"
                       /\ chk.previous_state # chk.current_state
                    THEN C7_Notified(chk) ELSE << >>
              /\ _container_states[chk.cid] = chk.current_state

\* a container cached as running was read as exited: the callback was
\* invoked and the cache updated
C7_Witness ==
    /\ mon_last.op = "run"
    /\ _status_change_callbacks # << >>
    /\ \E i \in DOMAIN mon_last.checks :
          /\ mon_last.checks[i].reloaded
          /\ mon_last.checks[i].stored
          /\ mon_last.checks[i].previous_state = "running"
          /\ mon_last.checks[i].current_state = "exited"
          /\ C7_StatusCalls(mon_last.checks[i]) =
                C7_Notified(mon_last.checks[i])
          /\ _container_states[mon_last.checks[i].cid] = "exited"

\* C7 as stated: the callbacks are invoked whenever the state read differs
\* from what the cache holds for the id, an empty cache entry included
C7_StatusIffDiffers ==
    mon_last.op = "run" =>
      \A i \in DOMAIN mon_last.checks :
         LET chk == mon_last.checks[i]
         IN chk.reloaded /\ chk.stored =>
              /\ C7_StatusCalls(chk) =
                    IF chk.previous_state # chk.current_state
                    THEN C7_Notified(chk) ELSE << >>
              /\ _container_states[chk.cid] = chk.current_state

(***************************************************************************)
(* C8: after any sequence of add_result calls the history holds at most    *)
(* 100 results, and they are the most recently added ones in arrival order.*)
(***************************************************************************)
C8_HistoryBounded ==
    LET h == m_hist.history
        n == Len(m_added)
        k == IF n < 100 THEN n ELSE 100
    IN /\ Len(h) = k
       /\ \A i \in 1..k : h[i] = m_added[n - k + i]

\* more than 100 results were added, so the oldest ones were evicted
C8_Witness ==
    /\ Len(m_added) > 100
    /\ Len(m_hist.history) = 100
    /\ m_hist.history[1] = m_added[Len(m_added) - 99]

(***************************************************************************)
(* C9: the resource usage history of a container never holds more than 10  *)
(* snapshots, and they are the most recently stored ones in the order they *)
(* were stored.                                                            *)
(***************************************************************************)
C9_ResourceHistoryBounded ==
    \A c \in Containers :
       LET h == _resource_usage_history[c]
           n == Len(mon_added[c])
           k == IF n < 10 THEN n ELSE 10
       IN /\ Len(h) = k
          /\ \A i \in 1..k : h[i] = mon_added[c][n - k + i]

\* more than 10 snapshots were stored, so the oldest ones were evicted
C9_Witness ==
    /\ Len(mon_added[1]) > 10
    /\ Len(_resource_usage_history[1]) = 10
    /\ _resource_usage_history[1][1] = mon_added[1][Len(mon_added[1]) - 9]
    /\ _resource_usage_history[1][1] # mon_added[1][1]

(***************************************************************************)
(* C10: a start_monitoring call made while _monitoring_active is set, and  *)
(* a stop_monitoring call made while it is not set, change nothing: the    *)
(* flag, the task reference, the loop tasks and their cancellation state   *)
(* stay as they were.                                                      *)
(***************************************************************************)
C10_NoOpCall ==
    \/ mon_last'.op = "start_monitoring" /\ mon_last'.was_active
    \/ mon_last'.op = "stop_monitoring" /\ ~mon_last'.was_active

C10_RepeatedCallsAreNoOps ==
    [][C10_NoOpCall =>
         UNCHANGED << _monitoring_active, _monitoring_task, loops, stops >>
      ]_vars

\* start_monitoring was called while the loop task of an earlier call was
\* asleep; that task is still the only one
C10_Witness ==
    /\ mon_last.op = "start_monitoring"
    /\ mon_last.was_active
    /\ _monitoring_active
    /\ _monitoring_task = 1
    /\ loops[1].pc = "sleep"
    /\ \A t \in LoopIds \ {1} : loops[t].pc = "unborn"

(***************************************************************************)
(* C11: when a stop_monitoring call that found monitoring active returns,  *)
(* every monitoring loop task that was alive when it was called has        *)
(* terminated: none of them is asleep, waiting in a callback or yet to     *)
(* run, so none can check a container or invoke a callback afterwards.     *)
(***************************************************************************)
C11_LoopTerminatedAtReturn ==
    /\ mon_last.op = "stop_monitoring"
          /\ mon_last.was_active /\ mon_last.returned =>
             \A t \in mon_last.alive : LoopFinished(loops[t])
    /\ mon_last.op = "stop_monitoring_returns" =>
             LoopFinished(loops[mon_last.t])

(***************************************************************************)
(* C12: delete_container on an id the runtime does not know raises         *)
(* NotFound and changes nothing: no stop or remove is issued, no socket    *)
(* file is removed, and the health-check task, config and history maps    *)
(* (and the units behind them) are as they were before the call.           *)
(***************************************************************************)
C12_UnknownIdStep ==
    (h_last'.op = "delete_container" /\ NotFound(docker, h_last'.cid)) =>
        /\ h_last'.raised
        /\ h_last'.error = "NotFound"
        /\ h_last'.calls = << >>
        /\ UNCHANGED << docker, socket_files, _health_check_configs,
                        _health_status_history, _health_check_tasks, tasks >>

C12_DeleteUnknownChangesNothing == [][C12_UnknownIdStep]_vars

\* the id was removed behind the manager's back: its socket file, config,
\* history and running unit are all still there when the delete raises
C12_Witness ==
    /\ h_last.op = "delete_container"
    /\ h_last.error = "NotFound"
    /\ docker[h_last.cid] = "gone"
    /\ h_last.cid \in socket_files
    /\ _health_check_configs[h_last.cid] # NoConfig
    /\ _health_status_history[h_last.cid] # NoHistory
    /\ _health_check_tasks[h_last.cid] # NoTask

(***************************************************************************)
(* C13: socket round trip.  For every JSON object m, when the frame that   *)
(* send_message wrote for m (the 4-byte big-endian length of the JSON      *)
(* text, then the text) is read by receive_message, the call returns a     *)
(* structure equal to m.                                                   *)
(***************************************************************************)
C13_RoundTrip ==
    \A m \in s_msgs :
       (s_last.op = "receive_message" /\ s_last.peer.out = Frame(m)) =>
           /\ s_last.kind = "ok"
           /\ s_last.value = m

(***************************************************************************)
(* C14: cleanup_socket(id) never raises and is idempotent.  Called in any  *)
(* state (never set up, listening, already cleaned up, or with a socket    *)
(* whose close fails) it returns normally; afterwards                      *)
(* is_socket_connected(id) is false and no connection is tracked for id,   *)
(* so that a second call finds nothing left to change.                     *)
(***************************************************************************)
C14_CleanupIdempotent ==
    s_last.op = "cleanup_socket" =>
        /\ s_last.kind = "ok"
        /\ ~is_socket_connected(SockState, s_last.cid)
        /\ _connections[s_last.cid] = "none"

(***************************************************************************)
(* C15: every send_message and receive_message call takes a timeout of     *)
(* the caller and ends either successfully or with exactly one of three    *)
(* error kinds: a connection error when the id was never set up or no      *)
(* peer is connected, a timeout error when the timeout elapses, and a      *)
(* communication error for a malformed or incomplete payload; no call      *)
(* blocks for ever.                                                        *)
(***************************************************************************)
C15_Malformed(p) ==
    \/ p.out.head # << >> /\ Len(p.out.head) # 4
    \/ /\ Len(p.out.head) = 4
       /\ \/ Len(p.out.body) # FromBytes4(p.out.head)
          \/ ~json_loads(p.out.body).ok

C15_ErrorKinds ==
    s_last.op \in {"send_message", "receive_message"} =>
        /\ s_last.timeout \in Timeouts
        /\ s_last.kind \in {"ok", "connection", "timeout", "communication"}
        /\ (~s_last.set_up \/ s_last.peer.conn = "none") =>
               s_last.kind = "connection"
        /\ s_last.kind = "connection" =>
               ~s_last.set_up \/ s_last.peer.conn = "none"
        /\ s_last.kind = "communication" => C15_Malformed(s_last.peer)

(***************************************************************************)
(* C16: in one resource check of a container, for each of the six          *)
(* resource types whose value is in the snapshot (the cpu and memory       *)
(* percentages always, the four rates once they were computed), every      *)
(* registered resource-alert callback is invoked exactly once with         *)
(* (id, resource_type, current_value, threshold, snapshot) if the value    *)
(* exceeds its threshold, and not at all for that type if it does not.     *)
(***************************************************************************)
C16_Available(snapshot, key) ==
    key \in {"cpu_percent", "memory_percent"} \/ snapshot.rates # NoRates

C16_Over(snapshot, key) ==
    IF key \in {"cpu_percent", "memory_percent"}
    THEN snapshot[key] > 100 * _resource_thresholds[key]
    ELSE snapshot.rates[key].num
            > _resource_thresholds[key] * snapshot.rates[key].den

C16_Value(snapshot, key) ==
    IF key \in {"cpu_percent", "memory_percent"}
    THEN snapshot[key] ELSE snapshot.rates[key]

C16_Hits(key, j) ==
    {i \in 1..Len(mon_last.calls) :
        mon_last.calls[i].cb = j /\ mon_last.calls[i].args[2] = key}

C16_AlertIffExceeded ==
    (mon_last.op = "resource" /\ mon_last.stored) =>
        LET snapshot == _resource_usage_history[1][
                            Len(_resource_usage_history[1])]
        IN \A k \in 1..Len(ResourceTypes) :
           \A j \in 1..Len(_resource_alert_callbacks) :
              LET key == ResourceTypes[k]
              IN C16_Available(snapshot, key) =>
                    IF C16_Over(snapshot, key)
                    THEN /\ Cardinality(C16_Hits(key, j)) = 1
                         /\ \A i \in C16_Hits(key, j) :
                               mon_last.calls[i].args =
                                  << 1, key, C16_Value(snapshot, key),
                                     _resource_thresholds[key], snapshot >>
                    ELSE C16_Hits(key, j) = {}

\* one check alerts for several types, while the disk write rate, exactly
\* at its threshold, produces no alert
C16_Witness ==
    /\ mon_last.op = "resource"
    /\ mon_last.stored
    /\ Len(_resource_alert_callbacks) = 2
    /\ Len(mon_last.alerts) >= 4
    /\ Len(mon_last.calls) = 2 * Len(mon_last.alerts)
    /\ LET snapshot == _resource_usage_history[1][
                           Len(_resource_usage_history[1])]
       IN /\ snapshot.rates # NoRates
          /\ snapshot.rates.disk_write_bytes_per_sec.num =
                _resource_thresholds.disk_write_bytes_per_sec
                   * snapshot.rates.disk_write_bytes_per_sec.den
          /\ C16_Hits("disk_write_bytes_per_sec", 1) = {}

(***************************************************************************)
(* C17: a health-check config with interval < 5, timeout < 1, retries < 1  *)
(* or a recovery_action outside {restart, recreate, none} is rejected      *)
(* before it is applied: no such config is ever stored by                  *)
(* set_health_check_config and no health-check unit ever runs with one.    *)
(***************************************************************************)
C17_Acceptable(config) ==
    /\ config.interval >= 5
    /\ config.timeout >= 1
    /\ config.retries >= 1
    /\ config.recovery_action \in RecoveryActions

C18_Failed == u_last.op = "update_container" /\ u_last.raised.kind # "none"

C18_Before == u_last.before.docker[u_last.cid]

C18_Raises ==
    IF u_last.error \in {"NotFound", "APIError", "FileNotFoundError"}
    THEN u_last.raised = [kind |-> u_last.error, original |-> TRUE]
    ELSE u_last.raised = [kind |-> "APIError", original |-> FALSE]

C18_OriginalLeft ==
    u_docker[u_last.cid] =
        CASE u_last.step \in {"path", "get", "backup", "copy", "stop"} ->
                C18_Before
          [] u_last.step = "remove" ->
                IF C18_Before = "running" THEN "exited" ELSE C18_Before
          [] OTHER -> "removed"

C18_BackupMade == fs.backup # "none"

C18_CodeRestored ==
    LET mount == u_last.before.fs.binds[u_last.cid]
    IN /\ (C18_BackupMade /\ u_last.rollback_ok)
             => HostCode(fs, mount) = fs.backup
       /\ ~C18_BackupMade =>
             /\ fs.host = u_last.before.fs.host
             /\ fs.volume \in {u_last.before.fs.volume, "partial", "new"}

C18_OthersLeft ==
    \A i \in UpdateIds \ {u_last.cid, u_last.before.next_id} :
        u_docker[i] = u_last.before.docker[i]

\* the update has left no container in the place of the original
C18_NoneCreated ==
    /\ u_next_id = u_last.before.next_id
    /\ u_docker[u_last.before.next_id] = u_last.before.docker[u_next_id]

C18_NewLeft ==
    CASE u_last.step = "start" ->
            /\ u_next_id = u_last.before.next_id + 1
            /\ u_docker[u_last.before.next_id] = "created"
      [] u_last.step = "cleanup" ->
            /\ u_next_id = u_last.before.next_id + 1
            /\ u_docker[u_last.before.next_id] =
                  IF C18_Before = "running" THEN "running" ELSE "created"
      [] OTHER -> C18_NoneCreated

C18_FailureLeavesStepsDone ==
    C18_Failed =>
        /\ C18_Raises
        /\ C18_OriginalLeft
        /\ C18_CodeRestored
        /\ C18_NewLeft
        /\ C18_OthersLeft

\* the start of the new container fails: the original is removed, the new
\* one is left created, the code directory holds the backup again
C18_Witness ==
    /\ C18_Failed
    /\ u_last.step = "start"
    /\ u_last.raised = [kind |-> "APIError", original |-> TRUE]
    /\ u_docker[u_last.cid] = "removed"
    /\ u_docker[u_last.before.next_id] = "created"
    /\ fs.backup = "old"
    /\ fs.volume = "old"

\* C18 as stated: a failure after the removal of the original leaves no
\* container at all
C18_FailureAfterRemovalLeavesNoContainer ==
    C18_Failed =>
        /\ C18_Raises
        /\ C18_OriginalLeft
        /\ C18_CodeRestored
        /\ C18_OthersLeft
        /\ u_last.step \in {"create", "start", "cleanup"} => C18_NoneCreated

(***************************************************************************)
(* C19: get_container_status returns the state the runtime reports when it *)
(* is called, dead for a value that is no container state, and raises      *)
(* NotFound for a container the runtime does not have; a read that follows *)
(* a change of the runtime state shows the new state, whatever the         *)
(* monitoring stored at its last poll.                                     *)
(***************************************************************************)
C19_Read == mon_last.op = "get_container_status"

C19_Reported == m_docker[mon_last.cid].status

C19_StatusReadShowsRuntimeState ==
    C19_Read =>
        CASE C19_Reported = "absent" ->
                /\ mon_last.result.raised
                /\ mon_last.result.error = "NotFound"
          [] C19_Reported \in {"created", "running", "stopped", "paused",
                                "restarting", "removing", "exited", "dead"} ->
                /\ ~mon_last.result.raised
                /\ mon_last.result.state = C19_Reported
          [] OTHER ->
                /\ ~mon_last.result.raised
                /\ mon_last.result.state = "dead"

\* the runtime has left "running" since the last poll: the read says exited
C19_Witness ==
    /\ C19_Read
    /\ mon_last.cid = 1
    /\ _container_states[1] = "running"
    /\ ~mon_last.result.raised
    /\ mon_last.result.state = "exited"

(***************************************************************************)
(* C20: what a registered callback raises, function or coroutine function, *)
(* is caught and logged by _safe_callback itself: the check goes on with   *)
(* the next callback of the event, the tick with the next container, and   *)
(* the loop goes to its sleep as after a tick without exceptions.          *)
(***************************************************************************)
C20_Callbacks(kind) ==
    CASE kind = "status" -> _status_change_callbacks
      [] kind = "health" -> _health_check_callbacks
      [] kind = "crash" -> _crash_callbacks
      [] OTHER -> _resource_alert_callbacks

C20_Raising(call) ==
    C20_Callbacks(call.kind)[call.cb] \in {"raises", "async_raises"}

C20_CaughtByWrapper(k) ==
    /\ \A i \in 1..Len(k.calls) :
          C20_Raising(k.calls[i]) =>
              \E j \in 1..Len(k.errors) :
                  k.errors[j] = [operation |-> "safe_callback",
                                 kind |-> k.calls[i].kind,
                                 cb |-> k.calls[i].cb]
    /\ \A j \in 1..Len(k.errors) :
          /\ k.errors[j].operation = "safe_callback"
          /\ C20_Raising(k.errors[j])

C20_EventGoesOn(k) ==
    \A i \in 1..Len(k.calls) :
        k.calls[i].cb < Len(C20_Callbacks(k.calls[i].kind)) =>
            /\ i < Len(k.calls)
            /\ k.calls[i + 1].kind = k.calls[i].kind
            /\ k.calls[i + 1].cb = k.calls[i].cb + 1
            /\ k.calls[i + 1].args = k.calls[i].args

C20_TickGoesOn ==
    LET checks == mon_last.checks
    IN /\ \A i \in 1..Len(checks) :
             (checks[i].completed /\ checks[i].cid # Listed[Len(Listed)]) =>
                 /\ i < Len(checks)
                 /\ checks[i + 1].cid = checks[i].cid + 1
       /\ loops[mon_last.t].pc \in {"sleep", "in_callback"}
       /\ loops[mon_last.t].pc = "sleep" =>
             /\ checks # << >>
             /\ checks[Len(checks)].completed
             /\ checks[Len(checks)].cid = Listed[Len(Listed)]

C20_CallbackErrorsStayInWrapper ==
    mon_last.op = "run" =>
        /\ \A i \in 1..Len(mon_last.checks) :
              mon_last.checks[i].completed =>
                  /\ C20_CaughtByWrapper(mon_last.checks[i])
                  /\ C20_EventGoesOn(mon_last.checks[i])
        /\ C20_TickGoesOn

\* the first crash callback raises for container 1: the second one is
\* called, container 2 is checked and its raising health callback is
\* followed by the next one
C20_Witness ==
    /\ mon_last.op = "run"
    /\ Len(mon_last.checks) = 2
    /\ mon_last.checks[1].cid = 1
    /\ mon_last.checks[1].completed
    /\ Len(mon_last.checks[1].errors) > 0
    /\ mon_last.checks[1].errors[1].cb = 1
    /\ mon_last.checks[1].errors[1].kind = "crash"
    /\ Len(mon_last.checks[1].calls) >= 2
    /\ mon_last.checks[2].cid = 2
    /\ mon_last.checks[2].completed
    /\ mon_last.checks[2].errors
          = << [operation |-> "safe_callback", kind |-> "health", cb |-> 1] >>
    /\ Len(mon_last.checks[2].calls) >= 2
    /\ mon_last.checks[2].calls[2].kind = "health"
    /\ loops[mon_last.t].pc = "sleep"

(***************************************************************************)
(* C21: a set_resource_thresholds call with an unknown key or a negative   *)
(* value fails, and the threshold map always has exactly the six known     *)
(* keys, each with a value that is not negative.                           *)
(***************************************************************************)
C21_Invalid(thresholds) ==
    \E k \in DOMAIN thresholds : k \notin valid_keys \/ thresholds[k] < 0

C21_SetterRejectsInvalid ==
    /\ DOMAIN _resource_thresholds = valid_keys
    /\ \A k \in valid_keys : _resource_thresholds[k] >= 0
    /\ (mon_last.op = "set_resource_thresholds"
          /\ C21_Invalid(mon_last.thresholds)) => mon_last.failed

(***************************************************************************)
(* C22: a container id has a health config exactly when it has a health    *)
(* history, from the first set_health_check_config until the container is  *)
(* deleted or a config with enabled = false is set; disabling removes      *)
(* config, history and task together, so no stored config is disabled.     *)
(***************************************************************************)
C22_PairUntilDeletedOrDisabled ==
    \A cid \in Ids :
        /\ _health_check_configs[cid] = NoConfig
              <=> _health_status_history[cid] = NoHistory
        /\ _health_check_configs[cid] # NoConfig =>
              _health_check_configs[cid].enabled

(***************************************************************************)
(* C23: recovery_attempts of a history changes only in a step that is a    *)
(* record_recovery_attempt, which adds one and stamps last_recovery_attempt *)
(* with the current time; add_result, should_recover and setting the       *)
(* config again leave both alone, and should_recover changes nothing.      *)
(***************************************************************************)
C23_Step ==
    LET attempts == m_hist.recovery_attempts
        attempts2 == m_hist'.recovery_attempts
    IN /\ attempts2 # attempts =>
             /\ attempts2 = attempts + 1
             /\ m_hist'.last_recovery_attempt = now
             /\ m_hist' = [m_hist EXCEPT !.recovery_attempts = attempts2,
                                         !.last_recovery_attempt = now]
             /\ m_added' = m_added
             /\ m_cfg' = m_cfg
             /\ ~m_ret'.called
       /\ (m_added' # m_added \/ m_cfg' # m_cfg \/ m_ret'.called) =>
             /\ attempts2 = attempts
             /\ m_hist'.last_recovery_attempt = m_hist.last_recovery_attempt
       /\ m_ret'.called =>
             /\ m_hist' = m_hist
             /\ m_cfg' = m_cfg
             /\ m_added' = m_added

C23_AttemptsOnlyRecorded == [][C23_Step]_vars

\* an attempt was recorded, a healthy result was added after it, the config
\* was replaced and should_recover was called: the count is still one
C23_Witness ==
    /\ m_hist.recovery_attempts = 1
    /\ m_hist.last_recovery_attempt # NoTime
    /\ m_added # << >>
    /\ m_added[Len(m_added)].success
    /\ m_added[Len(m_added)].timestamp > m_hist.last_recovery_attempt
    /\ m_hist.current_health = "healthy"
    /\ m_cfg = HealthCheckConfig(TRUE, TRUE, "recreate", 1, 0)
    /\ m_ret.called


\* C24: for every container id at most one health-check unit is live (started,
\* not finished, not cancelled), it is the one the manager's task map names,
\* and so at most one probe of the container is running at any time
C24_Live(t) ==
    /\ tasks[t].pc \notin {"unborn", "done", "cancelled"}
    /\ ~tasks[t].must_cancel

C24_Units(cid) == {t \in TaskIds : tasks[t].cid = cid /\ C24_Live(t)}

C24_OneUnitPerContainer ==
    \A cid \in Ids :
       /\ Cardinality(C24_Units(cid)) <= 1
       /\ \A t \in C24_Units(cid) : _health_check_tasks[cid] = t
       /\ Cardinality({t \in C24_Units(cid) : tasks[t].pc = "probing"}) <= 1

\* the config was set again while the first unit was probing: the first unit
\* has its cancellation pending and the second one is the live unit
C24_Witness ==
    \E cid \in Ids, old \in TaskIds, new \in TaskIds :
       /\ old # new
       /\ tasks[old].cid = cid /\ tasks[old].pc = "probing"
       /\ tasks[old].must_cancel
       /\ tasks[new].cid = cid /\ C24_Live(new)
       /\ _health_check_tasks[cid] = new

\* C25: at most one monitoring loop task is alive, and whenever no
\* start_monitoring or stop_monitoring call is in progress _monitoring_active
\* is true exactly when _monitoring_task names that live task; a loop is
\* alive from its creation until it finishes or is cancelled
C25_Alive == {t \in LoopIds : /\ ~LoopFinished(loops[t])
                              /\ ~loops[t].must_cancel}

C25_OneLoopAndFlagMatchesTask ==
    /\ Cardinality(C25_Alive) <= 1
    /\ stops = {} =>
          (_monitoring_active <=>
              /\ _monitoring_task # NoLoop
              /\ C25_Alive = {_monitoring_task})

\* C26: right after a recreate recovery has run to its end the task map names
\* no unit for the old id and none for the replacement's id, and every unit
\* of either id that has not finished, the one that ran the recovery
\* included, has its cancellation pending
C26_Unfinished(cid) ==
    {t \in TaskIds : tasks[t].cid = cid /\ tasks[t].pc # "unborn"
                                       /\ ~Done(tasks[t])}

C26_NoUnitAfterRecreate ==
    h_last.op = "recreate" =>
        /\ _health_check_tasks[h_last.old] = NoTask
        /\ _health_check_tasks[h_last.new] = NoTask
        /\ \A t \in C26_Unfinished(h_last.old) \cup C26_Unfinished(h_last.new) :
              tasks[t].must_cancel

\* the unit that ran the recovery is at its interval sleep, cancelled, and
\* the replacement runs
C26_Witness ==
    /\ h_last.op = "recreate"
    /\ docker[h_last.new] = "running"
    /\ \E t \in C26_Unfinished(h_last.old) :
          tasks[t].pc = "sleep" /\ tasks[t].must_cancel

\* C27: an iteration of a unit that has come to its end (the unit is at its
\* interval sleep, or was ended by the cancellation its own recovery
\* requested) ran exactly one probe, appended the result to the history and
\* handed it to the recovery controller, and invoked every registered
\* failure callback if the result was unhealthy and none otherwise, after
\* the recovery step and before the sleep
C27_Ended(t) ==
    \/ tasks[t].pc = "sleep"
    \/ /\ tasks[t].pc = "done"
       /\ \E i \in DOMAIN tasks[t].events :
             /\ tasks[t].events[i].e = "attempt_recovery"
             /\ tasks[t].events[i].cancelled

C27_At(e, kind) == {i \in DOMAIN e : e[i].e = kind}

C27_Shape(e) ==
    /\ C27_At(e, "probe") = {1}
    /\ C27_At(e, "add_result") = {2}
    /\ C27_At(e, "should_recover") = {3}
    /\ C27_At(e, "attempt_recovery") \subseteq {4}
    /\ C27_At(e, "sleep") \subseteq {Len(e)}
    /\ LET first == IF C27_At(e, "attempt_recovery") = {} THEN 4 ELSE 5
           n == IF e[1].ok THEN 0 ELSE Len(_health_check_callbacks)
       IN /\ C27_At(e, "callback") = first..(first + n - 1)
          /\ \A j \in 1..n : e[first + j - 1].cb = j

C27_IterationProbesRecoversNotifies ==
    \A t \in TaskIds : C27_Ended(t) => C27_Shape(tasks[t].events)

\* C28: the runtime calls of update_container come in the order stop,
\* remove, create, start, removal of the backup, each made only after the
\* ones before it returned; stop and start are made only for a container
\* that was running, and a container that was not running leaves a
\* replacement that is not running
C28_Calls == [i \in DOMAIN u_last.calls |-> u_last.calls[i].call]

C28_WasRunning == u_last.before.docker[u_last.cid] = "running"

C28_New == u_last.before.next_id

C28_InOrder ==
    /\ \A i, j \in DOMAIN C28_Calls :
          i < j => Rank(C28_Calls[i]) < Rank(C28_Calls[j])
    /\ \A i \in DOMAIN u_last.calls :
          i < Len(u_last.calls) => u_last.calls[i].ok

C28_Made(step) == \E i \in DOMAIN C28_Calls : C28_Calls[i] = step

C28_StepsInOrder ==
    u_last.op = "update_container" =>
        /\ C28_InOrder
        /\ C28_Made("stop") => C28_WasRunning
        /\ C28_Made("start") => C28_WasRunning
        /\ (C28_WasRunning /\ C28_Made("remove")) => C28_Made("stop")
        /\ (C28_WasRunning /\ C28_Made("cleanup")) => C28_Made("start")
        /\ C28_Made("create") => C28_Made("remove")
        /\ C28_Made("start") => C28_Made("create")
        /\ C28_Made("cleanup") => C28_Made("create")
        /\ Returned(u_last.calls, "remove")
              <=> (/\ u_docker[u_last.cid] = "removed"
                   /\ u_last.before.docker[u_last.cid] # "removed")
        /\ Returned(u_last.calls, "create") <=> u_next_id = C28_New + 1
        /\ Returned(u_last.calls, "start")
              <=> (u_next_id = C28_New + 1 /\ u_docker[C28_New] = "running")
        /\ Returned(u_last.calls, "cleanup")
              => (u_last.step = "none" /\ fs.backup = "none")
        /\ (~C28_WasRunning /\ u_next_id = C28_New + 1)
              => u_docker[C28_New] = "created"

\* an update of a stopped container with a code backup went through: it was
\* removed, the replacement created and left stopped, the backup deleted
C28_Witness ==
    /\ u_last.op = "update_container"
    /\ u_last.step = "none"
    /\ ~C28_WasRunning
    /\ C28_Calls = << "remove", "create", "cleanup" >>
    /\ u_docker[C28_New] = "created"

\* C29: update_container changes no health-check config, history or task;
\* after a successful update the state of the original id is still stored
\* under it, nothing is stored under the replacement's id, and a unit of a
\* removed container that wakes from a sleep ends without probing
C29_AfterUpdate ==
    h_last.op = "update_container" =>
        /\ _health_check_configs = h_last.before.configs
        /\ _health_status_history = h_last.before.history
        /\ _health_check_tasks = h_last.before.htasks
        /\ tasks = h_last.before.tasks
        /\ h_last.step = "none" =>
              /\ docker[h_last.cid] = "removed"
              /\ _health_check_configs[h_last.new] = NoConfig
              /\ _health_status_history[h_last.new] = NoHistory
              /\ _health_check_tasks[h_last.new] = NoTask

C29_UnitStops ==
    \A t \in TaskIds :
       (/\ tasks[t].pc \in {"start_sleep", "sleep", "err_sleep"}
        /\ docker[tasks[t].cid] = "removed"
        /\ tasks'[t].pc # tasks[t].pc)
          => (tasks'[t].pc \in {"done", "cancelled"} /\ h_probes' = h_probes)

C29_UpdateLeavesHealthState == [][C29_AfterUpdate' /\ C29_UnitStops]_vars

\* the original was updated away while its unit slept; the config is still
\* stored under the removed id, the unit has ended, and the replacement runs
\* with no config
C29_Witness ==
    \E cid \in Ids, new \in Ids :
       /\ docker[cid] = "removed"
       /\ _health_check_configs[cid] # NoConfig
       /\ _health_check_configs[cid].enabled
       /\ _health_check_tasks[cid] # NoTask
       /\ tasks[_health_check_tasks[cid]].pc = "done"
       /\ _health_status_history[cid] # NoHistory
       /\ _health_status_history[cid].history # << >>
       /\ docker[new] = "running"
       /\ _health_check_configs[new] = NoConfig

\* C30: a unit that is cancelled while it is suspended (in the start period,
\* in a probe, in a sleep), or that finds its container gone when an
\* iteration starts, ends by returning, not by an exception leaving it, and
\* the step that ends it runs no probe
C30_Ends(t) ==
    /\ Suspended(tasks[t])
    /\ Done(tasks'[t])

C30_Step ==
    \A t \in TaskIds :
       C30_Ends(t) => (tasks'[t].pc = "done" /\ h_probes' = h_probes)

C30_UnitEndsByReturning == [][C30_Step]_vars

\* C31: in a step in which a recovery action fails, the unit that ran it goes
\* on to its callbacks and its interval sleep (nothing was raised into the
\* loop), and the attempt is counted and stamped in the history
C31_Failed(cid) ==
    /\ Len(h_log'[cid]) = Len(h_log[cid]) + 1
    /\ h_log'[cid][Len(h_log'[cid])].failed

C31_Step ==
    \A cid \in Ids :
       C31_Failed(cid) =>
          /\ \E t \in TaskIds :
                /\ tasks[t].cid = cid
                /\ tasks[t].pc \in {"start_sleep", "sleep", "err_sleep",
                                     "probing"}
                /\ tasks'[t].pc \in {"sleep", "in_callback"}
          /\ \A t \in TaskIds :
                tasks'[t].pc = "err_sleep" => tasks[t].pc = "err_sleep"
          /\ _health_status_history'[cid] # NoHistory =>
                /\ _health_status_history'[cid].recovery_attempts
                      = _health_status_history[cid].recovery_attempts + 1
                /\ _health_status_history'[cid].last_recovery_attempt = now

C31_FailedRecoveryIsSwallowedAndCounted == [][C31_Step]_vars

\* a restart that failed was counted, and the unit sleeps its interval
C31_Witness ==
    \E cid \in Ids, t \in TaskIds :
       /\ h_log[cid] # << >>
       /\ h_log[cid][Len(h_log[cid])].failed
       /\ h_log[cid][Len(h_log[cid])].action = "restart"
       /\ _health_status_history[cid] # NoHistory
       /\ _health_status_history[cid].recovery_attempts >= 1
       /\ _health_status_history[cid].last_recovery_attempt
             = h_log[cid][Len(h_log[cid])].t
       /\ tasks[t].cid = cid
       /\ tasks[t].pc = "sleep"
       /\ ~tasks[t].must_cancel

\* C32: a monitoring tick that fails leaves the loop alive and asleep until
\* 10 seconds later; a loop leaves that sleep only when the 10 seconds are
\* over, into the next tick if monitoring is still active and by returning
\* if it is not, or earlier by being cancelled
C32_Fails(t) ==
    /\ mon_budget'.list_errors < mon_budget.list_errors
    /\ loops'[t] # loops[t]

C32_Step ==
    \A t \in LoopIds :
       /\ C32_Fails(t) =>
             /\ loops'[t].pc = "err_sleep"
             /\ loops'[t].wake = now + 10
             /\ _monitoring_active'
       /\ (loops[t].pc = "err_sleep" /\ loops'[t].pc # "err_sleep") =>
             \/ loops[t].must_cancel /\ loops'[t].pc = "cancelled"
             \/ /\ ~loops[t].must_cancel
                /\ now >= loops[t].wake
                /\ IF _monitoring_active
                   THEN loops'[t].pc \in {"sleep", "in_callback"}
                   ELSE loops'[t].pc = "done"

C32_TickErrorBacksOff == [][C32_Step]_vars

\* the only loop ever started failed its first tick, slept 10 seconds and
\* has run a tick with checks since
C32_Witness ==
    /\ mon_budget.list_errors < MaxListErrors
    /\ mon_budget.calls = MaxMonCalls - 1
    /\ mon_last.op = "run"
    /\ mon_last.checks # << >>
    /\ now >= 10
    /\ \E t \in LoopIds : loops[t].pc = "sleep" /\ loops[t].wake = now + 5

\* C33: after every add_result current_health is the health of the latest
\* result, consecutive_failures is the number of failed results added since
\* the latest successful one, and last_healthy and last_unhealthy are the
\* timestamps of the latest successful and the latest failed result
C33_Latest(ok) ==
    LET at == {i \in DOMAIN m_added : m_added[i].success = ok}
    IN IF at = {} THEN 0
       ELSE CHOOSE i \in at : \A j \in at : j <= i

C33_Stamp(ok) ==
    IF C33_Latest(ok) = 0 THEN NoTime ELSE m_added[C33_Latest(ok)].timestamp

C33_HistorySummarisesResults ==
    m_added # << >> =>
        /\ m_hist.current_health = m_added[Len(m_added)].health
        /\ m_hist.consecutive_failures = Len(m_added) - C33_Latest(TRUE)
        /\ m_hist.last_healthy = C33_Stamp(TRUE)
        /\ m_hist.last_unhealthy = C33_Stamp(FALSE)

\* two failures in a row after a success
C33_Witness ==
    /\ Len(m_added) >= 3
    /\ m_added[Len(m_added) - 2].success
    /\ ~m_added[Len(m_added) - 1].success
    /\ ~m_added[Len(m_added)].success
    /\ m_hist.consecutive_failures = 2
    /\ m_hist.last_healthy = m_added[Len(m_added) - 2].timestamp
(***************************************************************************)
(* C34: the channel of a container id is Unbound until setup_socket,      *)
(* Listening until a peer is accepted and Connected from then on, and a   *)
(* send_message or receive_message call attempts an accept only on a      *)
(* Listening channel: never on an Unbound one and never on one where a    *)
(* peer was accepted already.                                              *)
(***************************************************************************)
C34_Channel(container_id) ==
    IF _connections[container_id] # "listening" THEN "Unbound"
    ELSE IF container_id \in s_last.accepted THEN "Connected"
    ELSE "Listening"

\* the call that has just run reached sock.accept()
C34_AttemptsAccept ==
    /\ s_last'.n # s_last.n
    /\ s_last'.op \in {"send_message", "receive_message"}
    /\ is_socket_connected(SockState, s_last'.cid)
    /\ _connections[s_last'.cid] # "none"

C34_Step == C34_AttemptsAccept => C34_Channel(s_last'.cid) = "Listening"

C34_AcceptOnlyWhileListening == [][C34_Step]_vars

(***************************************************************************)
(* C35: send_message writes and receive_message reads exactly the framed  *)
(* byte counts, the 4-byte big-endian length and then that many bytes of  *)
(* text.  A send that returns normally has handed the peer the whole      *)
(* frame of its message, and a receive that returns a message has read a  *)
(* whole frame; a short write or a short read ends in a communication     *)
(* error.                                                                  *)
(***************************************************************************)
C35_Whole(wire) ==
    /\ Len(wire.head) = 4
    /\ Len(wire.body) = FromBytes4(wire.head)

C35_SendWritesFrame ==
    (s_last.op = "send_message" /\ s_last.peer.conn = "pending") =>
        /\ (s_last.kind = "ok" /\ s_last.peer.reads) =>
               /\ delivered[s_last.cid] = Frame(s_last.message)
               /\ C35_Whole(delivered[s_last.cid])
        /\ s_last.written < Len(Frame(s_last.message).body) =>
               s_last.kind = "communication"

C35_ReceiveReadsFrame ==
    (s_last.op = "receive_message" /\ s_last.peer.conn = "pending") =>
        /\ s_last.kind = "ok" =>
               /\ C35_Whole(s_last.peer.out)
               /\ json_loads(s_last.peer.out.body).ok
               /\ s_last.value = json_loads(s_last.peer.out.body).val
        /\ (s_last.peer.out.head # << >> /\ ~C35_Whole(s_last.peer.out)) =>
               s_last.kind = "communication"

C35_ExactFraming == C35_SendWritesFrame /\ C35_ReceiveReadsFrame

(***************************************************************************)
(* C36: when reading the stats of a running container fails, its resource *)
(* check yields nothing in that tick: no snapshot is appended to its      *)
(* history and no alert callback is called for it.  The tick goes on to   *)
(* the next container listed, whose snapshot is stored as usual.           *)
(***************************************************************************)
C36_StatsFail(c) ==
    /\ m_docker[c] # Absent
    /\ ParseState(m_docker[c].status) = "running"
    /\ m_docker[c].stats = "fails"

C36_StatsServed(c) ==
    /\ m_docker[c] # Absent
    /\ ParseState(m_docker[c].status) = "running"
    /\ m_docker[c].stats # "fails"

C36_NoAlert(k) == \A j \in 1..Len(k.calls) : k.calls[j].kind # "alert"

C36_Step ==
    mon_last'.op = "run" =>
       \A i \in 1..Len(mon_last'.checks) :
          LET k == mon_last'.checks[i]
              t == mon_last'.t
          IN /\ (k.reloaded /\ C36_StatsFail(k.cid)) =>
                   /\ _resource_usage_history'[k.cid] =
                          _resource_usage_history[k.cid]
                   /\ mon_added'[k.cid] = mon_added[k.cid]
                   /\ C36_NoAlert(k)
                   /\ (k.completed /\ i = Len(mon_last'.checks)) =>
                          /\ loops'[t].queue = << >>
                          /\ loops'[t].pc = "sleep"
             /\ (k.completed /\ k.reloaded /\ C36_StatsServed(k.cid)
                   /\ loops[t].pc # "in_callback") =>
                   /\ mon_added'[k.cid] # mon_added[k.cid]
                   /\ _resource_usage_history'[k.cid][
                          Len(_resource_usage_history'[k.cid])].timestamp = now

C36_FailedStatsSkipOnlyThatContainer == [][C36_Step]_vars

C36_Witness ==
    /\ mon_last.op = "run"
    /\ Len(mon_last.checks) = 2
    /\ mon_last.checks[1].completed
    /\ mon_last.checks[2].completed
    /\ C36_StatsFail(mon_last.checks[1].cid)
    /\ C36_StatsServed(mon_last.checks[2].cid)
    /\ _resource_usage_history[mon_last.checks[1].cid] = << >>
    /\ _resource_usage_history[mon_last.checks[2].cid] # << >>
    /\ ~C36_NoAlert(mon_last.checks[2])

(***************************************************************************)
(* C37: in every reachable state the health config map and the health     *)
(* history map hold the same container ids, and every container id with   *)
(* a health-check task in the task map has a config with enabled = true;  *)
(* set_health_check_config, delete_container, cleanup_all_health_checks   *)
(* and the re-keying of a recreate keep it so.                             *)
(***************************************************************************)
C37_Configured == {cid \in Ids : _health_check_configs[cid] # NoConfig}

C37_WithHistory == {cid \in Ids : _health_status_history[cid] # NoHistory}

C37_WithTask == {cid \in Ids : _health_check_tasks[cid] # NoTask}

C37_MapsAgree ==
    /\ C37_Configured = C37_WithHistory
    /\ \A cid \in C37_WithTask :
          /\ cid \in C37_Configured
          /\ _health_check_configs[cid].enabled

C37_Witness ==
    /\ h_last.op = "cleanup_all_health_checks"
    /\ h_last.configs # {}
    /\ h_last.units # {}
    /\ C37_Configured = {}
    /\ C37_WithHistory = {}
    /\ C37_WithTask = {}
    /\ \E t \in TaskIds : tasks[t].must_cancel

(***************************************************************************)
(* C38: config.retries is never consulted.  One failed probe sets         *)
(* current_health to unhealthy, and if recovery is enabled, attempts are  *)
(* left and the cooldown is over, a recovery attempt is recorded and      *)
(* executed in the same iteration, whatever the values of retries and     *)
(* consecutive_failures.                                                   *)
(***************************************************************************)
\* the probe of unit t has returned in this step
C38_ProbeDone(t) ==
    /\ h_probes' = h_probes + 1
    /\ tasks[t].pc = "probing"
    /\ tasks'[t].pc # "probing"

\* what should_recover asks for besides the health
C38_Due(h, config) ==
    /\ config.auto_recovery
    /\ config.recovery_action # "none"
    /\ h.recovery_attempts < config.max_recovery_attempts
    /\ \/ h.last_recovery_attempt = NoTime
       \/ now - h.last_recovery_attempt >= config.recovery_cooldown

C38_Step ==
    \A t \in TaskIds :
       LET cid == tasks[t].cid
           h == _health_status_history[cid]
           after == _health_status_history'[cid]
       IN (C38_ProbeDone(t) /\ h # NoHistory
             /\ ~tasks'[t].events[1].ok) =>
             /\ after # NoHistory =>
                    /\ after.current_health = "unhealthy"
                    /\ after.consecutive_failures = h.consecutive_failures + 1
             /\ C38_Due(h, tasks[t].config) =>
                    /\ h_log'[cid] # h_log[cid]
                    /\ h_log'[cid][Len(h_log'[cid])].t = now
                    /\ h_log'[cid][Len(h_log'[cid])].attempts
                          = h.recovery_attempts + 1
                    /\ \E i \in DOMAIN tasks'[t].events :
                          tasks'[t].events[i].e = "attempt_recovery"
                    /\ after # NoHistory =>
                          /\ after.recovery_attempts = h.recovery_attempts + 1
                          /\ after.last_recovery_attempt = now

C39_StillCrashed(chk) ==
    /\ chk.completed
    /\ chk.reloaded
    /\ chk.previous_state = chk.current_state
    /\ chk.current_state \in {"exited", "dead"}
    /\ chk.attrs.exit_code # 0

C39_Kinds(chk) == [j \in DOMAIN chk.calls |-> chk.calls[j].kind]

C39_CrashNotifiedEveryTick ==
    mon_last.op = "run" =>
       \A i \in DOMAIN mon_last.checks :
          C39_StillCrashed(mon_last.checks[i]) =>
             /\ Len(SelectSeq(C39_Kinds(mon_last.checks[i]),
                              LAMBDA kind : kind = "crash"))
                   = Len(_crash_callbacks)
             /\ \A j \in DOMAIN mon_last.checks[i].calls :
                   mon_last.checks[i].calls[j].kind # "status"

C39_Witness ==
    /\ mon_last.op = "run"
    /\ now >= MonitorInterval
    /\ _crash_callbacks # << >>
    /\ \E i \in DOMAIN mon_last.checks :
          /\ C39_StillCrashed(mon_last.checks[i])
          /\ _container_states[mon_last.checks[i].cid] = "exited"
          /\ "crash" \in {C39_Kinds(mon_last.checks[i])[j] :
                             j \in DOMAIN mon_last.checks[i].calls}

(***************************************************************************)
(* C40: within one monitoring tick the containers are checked one after   *)
(* another in the order of their names, and every status, crash, health   *)
(* and resource callback of one container is delivered before the next    *)
(* container is checked.                                                   *)
(***************************************************************************)
\* the containers are named so that their names sort as their numbers do
C40_ByName(c, d) == c < d

\* the checks of a step have run one after another: only the last one can
\* be waiting for a callback, and no container was checked twice
C40_OneAfterAnother ==
    mon_last.op = "run" =>
       /\ \A i \in 1..(Len(mon_last.checks) - 1) :
             mon_last.checks[i].completed
       /\ \A i, j \in DOMAIN mon_last.checks :
             i # j => mon_last.checks[i].cid # mon_last.checks[j].cid

C40_InNameOrder ==
    mon_last.op = "run" =>
       \A i, j \in DOMAIN mon_last.checks :
          i < j => C40_ByName(mon_last.checks[i].cid, mon_last.checks[j].cid)

C40_TickInNameOrder == C40_OneAfterAnother /\ C40_InNameOrder

====
